---------------------------- MODULE Spec2Model ----------------------------
(***************************************************************************)
(* Size-targeting engine of the PDF size chooser backend:                  *)
(*   - estimateSizes     (sample compression, extrapolation, clamping)     *)
(*   - findBestQuality   (quality resolver over the estimation curve)      *)
(*   - compressPdf       (quality -> Ghostscript settings)                 *)
(*   - compressToTargetSize (verification gate)                            *)
(*   - createJob / startEstimation / POST compress / queueCompression     *)
(*                       (job life cycle, direct mode)                     *)
(*   - upload, the Bull queue, DELETE and the files of TEMP_DIR            *)
(*                       (the server with several jobs)                    *)
(* Sizes are byte counts.  Ghostscript is a black box whose output size    *)
(* (or failure) is chosen nondeterministically.                            *)
(***************************************************************************)
EXTENDS Integers, Sequences, FiniteSets, TLC

(***************************************************************************)
(* Bounds of the model                                                     *)
(***************************************************************************)
\* largest file size (bytes) of the small size domain
MaxSize == 4
\* largest file size (bytes) in the job life-cycle specification
MaxJobSize == 2
\* largest page count of the sampling-policy specification
MaxPages == 100
\* largest number of compress requests accepted per job in the server
\* specification
MaxRequests == 2
\* largest page count of the page-selection specification
MaxSelectPages == 12
\* largest number of uploads of the browser client, and of its status
\* requests in flight at the same time
MaxUploads == 2
MaxOverlap == 2
\* largest file size (bytes) and largest number of images of an analysed
\* document
MaxAnalysedSize == 10
MaxImages == 2

(***************************************************************************)
(* Program constants                                                       *)
(***************************************************************************)
QUALITY_LEVELS == <<100, 75, 50, 25>>
MIN_SAMPLE_PAGES == 2
MAX_SAMPLE_PAGES == 20
MAX_RECOMPRESSION_ATTEMPTS == 3
QUALITY_REDUCTION_PER_ATTEMPT == 5
MIN_QUALITY == 1
MAX_QUALITY == 100
DEFAULT_QUALITY == 75
DEFAULT_GATE_QUALITY == 50
EMPTY_CURVE_QUALITY == 50
MB == 1000 * 1000
MiB == 1024 * 1024

\* "no value" (null) where a size is expected
NoSize == -1

Min(a, b) == IF a < b THEN a ELSE b
Max(a, b) == IF a > b THEN a ELSE b

\* Math.round(num / den) for num >= 0, den > 0 (round half up)
MathRound(num, den) == (2 * num + den) \div (2 * den)

\* Math.floor(num / den) for num >= 0, den > 0
MathFloor(num, den) == num \div den

(***************************************************************************)
(* estimateSizes: the pure parts                                           *)
(***************************************************************************)
\* a mutation of SampleCount: small documents are not sampled whole
SampleCountNoSmallDocs(pages) ==
    Max(MIN_SAMPLE_PAGES, Min(MAX_SAMPLE_PAGES, MathFloor(pages, 4)))

\* sampleCount computed from pageCount (SAMPLE_PERCENTAGE = 0.25 = 1/4)
SampleCount(pages) ==
    IF pages <= 3 THEN pages
    ELSE Max(MIN_SAMPLE_PAGES, Min(MAX_SAMPLE_PAGES, MathFloor(pages, 4)))

\* a mutation of EstimatedSize: the cap at the original size is dropped
EstimatedSizeNoCap(origSize, compressedSize, sampleOrigSize) ==
    MathRound(origSize * compressedSize, sampleOrigSize)

\* Math.round(Math.min(originalSize, originalSize * compressionRatio))
\* with compressionRatio = compressedSize / sampleOriginalSize
EstimatedSize(origSize, compressedSize, sampleOrigSize) ==
    IF compressedSize >= sampleOrigSize
    THEN origSize
    ELSE MathRound(origSize * compressedSize, sampleOrigSize)

\* one SizeEstimate entry (samplePages and totalPages are reporting fields
\* that no computation reads; they are left out)
SizeEstimate(q, est, sample) ==
    [quality |-> q, estimatedSize |-> est, sampleSize |-> sample]

\* insertion of e into a sequence sorted ascending by quality
RECURSIVE InsertAsc(_, _)
InsertAsc(e, s) ==
    IF s = << >> THEN <<e>>
    ELSE IF e.quality < Head(s).quality THEN <<e>> \o s
    ELSE <<Head(s)>> \o InsertAsc(e, Tail(s))

\* estimates.sort((a, b) => a.quality - b.quality)
RECURSIVE SortAscByQuality(_)
SortAscByQuality(s) ==
    IF s = << >> THEN << >>
    ELSE InsertAsc(Head(s), SortAscByQuality(Tail(s)))

\* [...estimates].sort((a, b) => b.quality - a.quality)
RECURSIVE Reverse(_)
Reverse(s) == IF s = << >> THEN << >> ELSE Reverse(Tail(s)) \o <<Head(s)>>

SortDescByQuality(s) == Reverse(SortAscByQuality(s))

\* the clamping loop: for (i = 1; i < n; i++)
\*   if (e[i].estimatedSize < e[i-1].estimatedSize) e[i-1].estimatedSize = e[i].estimatedSize
\* (i is 1-based here, so the loop starts at 2)
RECURSIVE ClampFrom(_, _)
ClampFrom(est, i) ==
    IF i > Len(est) THEN est
    ELSE ClampFrom(
           IF est[i].estimatedSize < est[i - 1].estimatedSize
           THEN [est EXCEPT ![i - 1].estimatedSize = est[i].estimatedSize]
           ELSE est,
           i + 1)

\* sort ascending by quality, then clamp
SortAndClamp(est) == ClampFrom(SortAscByQuality(est), 2)

\* the EstimationResult returned by estimateSizes
EstimationResult(origSize, pages, est) ==
    [originalSize |-> origSize, pageCount |-> pages, estimates |-> SortAndClamp(est)]

(***************************************************************************)
(* findBestQuality (the interpolating resolver)                            *)
(***************************************************************************)
ResolverResult(q, est, ok) ==
    [quality |-> q, estimatedSize |-> est, achievable |-> ok]

\* Math.max(1, Math.min(100, q))
ClampQuality(q) == Max(MIN_QUALITY, Min(MAX_QUALITY, q))

\* a mutation of InterpolatedQuality: truncation instead of rounding
InterpolatedQualityFloor(lower, higher, target) ==
    lower.quality
      + MathFloor((target - lower.estimatedSize) * (higher.quality - lower.quality),
                  higher.estimatedSize - lower.estimatedSize)

\* Math.round(lower.quality + sizeRatio * qualityRange), with
\* sizeRatio = (target - lower.estimatedSize) / sizeRange, in exact arithmetic;
\* lower.quality is an integer, so it is taken out of the rounding
InterpolatedQuality(lower, higher, target) ==
    lower.quality
      + MathRound((target - lower.estimatedSize) * (higher.quality - lower.quality),
                  higher.estimatedSize - lower.estimatedSize)

\* the body of the bracket loop for the pair (higher, lower)
Interpolate(lower, higher, target) ==
    IF higher.estimatedSize - lower.estimatedSize = 0
    THEN ResolverResult(lower.quality, lower.estimatedSize, TRUE)
    ELSE ResolverResult(ClampQuality(InterpolatedQuality(lower, higher, target)),
                        \* Math.round(lower.estimatedSize + sizeRatio * sizeRange)
                        lower.estimatedSize + (target - lower.estimatedSize),
                        TRUE)

\* a mutation of Brackets: a target equal to an estimate is not bracketed
BracketsStrict(sorted, i, target) ==
    /\ target < sorted[i].estimatedSize
    /\ target > sorted[i + 1].estimatedSize

\* the pair (sorted[i], sorted[i+1]) brackets the target
Brackets(sorted, i, target) ==
    /\ target <= sorted[i].estimatedSize
    /\ target >= sorted[i + 1].estimatedSize

\* for (i = 0; i < sorted.length - 1; i++) ... , then the fallback
RECURSIVE BracketLoop(_, _, _)
BracketLoop(sorted, i, target) ==
    IF i > Len(sorted) - 1
    THEN ResolverResult(sorted[Len(sorted)].quality,
                        sorted[Len(sorted)].estimatedSize, FALSE)
    ELSE IF Brackets(sorted, i, target)
         THEN Interpolate(sorted[i + 1], sorted[i], target)
         ELSE BracketLoop(sorted, i + 1, target)

\* if (targetSizeBytes >= sorted[0].estimatedSize)
TopFits(sorted, target) == target >= sorted[1].estimatedSize

findBestQuality(estimates, target) ==
    IF Len(estimates) = 0
    THEN ResolverResult(EMPTY_CURVE_QUALITY, 0, FALSE)
    ELSE LET sorted == SortDescByQuality(estimates)
             lowest == sorted[Len(sorted)]
         IN  IF TopFits(sorted, target)
             THEN ResolverResult(sorted[1].quality, sorted[1].estimatedSize, TRUE)
             ELSE IF target < lowest.estimatedSize
                  THEN ResolverResult(lowest.quality, lowest.estimatedSize, FALSE)
                  ELSE BracketLoop(sorted, 1, target)

(***************************************************************************)
(* compressPdf: quality -> Ghostscript settings                            *)
(***************************************************************************)
PdfSettings(quality) ==
    IF quality <= 25 THEN "/screen"
    ELSE IF quality <= 50 THEN "/ebook"
    ELSE IF quality <= 75 THEN "/ebook"
    ELSE "/printer"

\* a mutation of Dpi: the resolutions named in the comments of the presets
DpiOfPreset(quality) ==
    IF quality <= 25 THEN 72
    ELSE IF quality <= 50 THEN 150
    ELSE IF quality <= 75 THEN 150
    ELSE 300

Dpi(quality) ==
    IF quality <= 25 THEN 72
    ELSE IF quality <= 50 THEN 100
    ELSE IF quality <= 75 THEN 150
    ELSE 200

(***************************************************************************)
(* compressToTargetSize: the pure parts of the verification gate           *)
(***************************************************************************)
\* a mutation of VerificationGate: strict comparison
VerificationGateStrict(compressedSize, target) == compressedSize < target

\* if (result.compressedSize <= targetSizeBytes)
VerificationGate(compressedSize, target) == compressedSize <= target

\* a mutation of LoopGuard: one attempt too many
LoopGuardOffByOne(attempts) == attempts <= MAX_RECOMPRESSION_ATTEMPTS

\* while (attempts < MAX_RECOMPRESSION_ATTEMPTS)
LoopGuard(attempts) == attempts < MAX_RECOMPRESSION_ATTEMPTS

\* a mutation of ReducedQuality: a step of 7 quality points
ReducedQualityStep7(quality) == Max(MIN_QUALITY, quality - 7)

\* Math.max(MIN_QUALITY, currentQuality - QUALITY_REDUCTION_PER_ATTEMPT)
ReducedQuality(quality) ==
    Max(MIN_QUALITY, quality - QUALITY_REDUCTION_PER_ATTEMPT)

\* if (currentQuality === MIN_QUALITY && attempts > 1) break
GiveUpAtFloor(quality, attempts) == quality = MIN_QUALITY /\ attempts > 1

VerifiedCompressionResult(size, q, n, ok) ==
    [compressedSize |-> size, quality |-> q, attempts |-> n,
     verificationPassed |-> ok]

(***************************************************************************)
(* State                                                                   *)
(***************************************************************************)
VARIABLES
    jobs,        \* the jobs map: a function from the ids present to Job records
    request,     \* the queueCompression invocation in flight
    est,         \* locals of the estimateSizes invocation
    estReturn,   \* value returned by estimateSizes (when est.pc = "returned")
    gate,        \* locals of the compressToTargetSize invocation
    gateReturn,  \* value returned by compressToTargetSize (when gate.pc = "returned")
    resolverIn,  \* arguments of the last findBestQuality call
    resolved,    \* result of the last findBestQuality call (quality 0: no call yet)
    backend,     \* "any": Ghostscript output sizes are arbitrary;
                 \* "curve": full-document sizes equal the curve's estimates
    compressionQueue, \* the Bull queue (enabled = FALSE: direct mode)
    files,       \* the names of the files in TEMP_DIR
    tasks,       \* per job id: the asynchronous invocations started for it
    http,        \* per job id: POST compress requests accepted and answered
    selection,   \* locals of the selectRandomPages invocation
    compress,    \* locals of the last compressPdf invocation
    download,    \* the last response of GET /:id/download
    analysis,    \* the sizes computed by the analyzePdf invocation
    client       \* the browser client: its UI state and its requests in flight

jobVars == <<jobs, request>>
estVars == <<est, estReturn>>
gateVars == <<gate, gateReturn>>
resolverVars == <<resolverIn, resolved>>
serverVars == <<compressionQueue, files, tasks, http>>
sideVars == <<selection, compress, download, analysis, client>>
engineVars == <<request, est, estReturn, gate, gateReturn, resolverIn, resolved, backend,
                selection, compress, download, analysis, client>>
vars == <<jobs, request, est, estReturn, gate, gateReturn, resolverIn, resolved, backend,
          compressionQueue, files, tasks, http, selection, compress, download,
          analysis, client>>

EstIdle ==
    [pc |-> "idle", i |-> 0, estimates |-> << >>, originalSize |-> 0,
     pageCount |-> 0, sampleCount |-> 0, sampleOriginalSize |-> 0]

GateIdle ==
    [pc |-> "idle", target |-> 0, currentQuality |-> 0, attempts |-> 0,
     result |-> NoSize, calls |-> << >>]

\* place holders of the variables that hold no value yet
NoJobs == << >>
NoRequest == [mode |-> "none"]
NoEstimation == [originalSize |-> 0, pageCount |-> 0, estimates |-> << >>]
NoVerified ==
    [compressedSize |-> 0, quality |-> 0, attempts |-> 0, verificationPassed |-> FALSE]
NoResolverIn == [estimates |-> << >>, target |-> 0]
NoResolved == [quality |-> 0, estimatedSize |-> 0, achievable |-> FALSE]

NoSelection ==
    [pc |-> "idle", totalPages |-> 0, sampleCount |-> 0, i |-> 0,
     pages |-> << >>, available |-> << >>]

NoCompress == [pc |-> "idle", quality |-> 0, pdfSettings |-> "", dpi |-> 0]
NoDownload == [jobId |-> "", status |-> 0, error |-> "", jobStatus |-> ""]
NoAnalysis ==
    [pc |-> "idle", originalSize |-> 0, images |-> 0, totalImageSize |-> 0,
     compressibleContent |-> 0, fixedOverhead |-> 0, minimumAchievableSize |-> 0]
\* the page after mount: no file, no job, nothing in flight (0: null)
NoClient ==
    [status |-> "idle", file |-> FALSE, jobId |-> 0, estimates |-> 0,
     compressionResult |-> 0, selectedChoice |-> FALSE, failureType |-> "none",
     activeJobIdRef |-> 0, pollIntervalRef |-> 0, pollTimeoutRef |-> 0,
     intervals |-> {}, timeouts |-> {}, uploads |-> 0, pending |-> {}]

\* the state of the parts that a specification does not run
SideIdle ==
    /\ selection = NoSelection
    /\ compress = NoCompress
    /\ download = NoDownload
    /\ analysis = NoAnalysis
    /\ client = NoClient

\* the job ids of the server specification, and the ones among them for
\* which compress requests are sent
ServerJobIds == {"job1", "job2"}
CompressJobIds == {"job1"}

\* the asynchronous invocations of a job: est is its startEstimation /
\* estimateSizes, comp its queueCompression or Bull processor run;
\* gs = TRUE while a Ghostscript subprocess started by compressPdf runs
EstTaskIdle == [pc |-> "none", i |-> 0, estimates |-> << >>, gs |-> FALSE]
CompTaskIdle ==
    [pc |-> "none", targetSizeBytes |-> 0, currentQuality |-> 0, attempts |-> 0,
     gs |-> FALSE, returned |-> NoVerified]

\* compressionQueue = null
NoQueue == [enabled |-> FALSE, waiting |-> << >>, active |-> << >>]
NoTasks == [j \in ServerJobIds |-> [est |-> EstTaskIdle, comp |-> CompTaskIdle]]
NoHttp == [j \in ServerJobIds |-> [accepted |-> 0, started |-> 0]]

\* the server part of the state when no server runs
ServerIdle ==
    /\ compressionQueue = NoQueue
    /\ files = {}
    /\ tasks = NoTasks
    /\ http = NoHttp

\* page counts of the model: a small document (sample = whole document)
\* and a larger one (sample = extracted pages)
PageCounts == {2, 8}

(***************************************************************************)
(* estimateSizes, step by step                                             *)
(***************************************************************************)
\* locals after entry: fs.stat of the input, analysis / page count,
\* sampleCount
EstEntered(origSize, pages) ==
    [pc |-> "extract", i |-> 1, estimates |-> << >>,
     originalSize |-> origSize, pageCount |-> pages,
     sampleCount |-> SampleCount(pages),
     sampleOriginalSize |-> 0]

EstEnter(origSize, pages) ==
    /\ est' = EstEntered(origSize, pages)
    /\ estReturn' = NoEstimation

\* the sample file is written (copy of the input or extracted pages) and
\* its size is read
EstSampleReady(extractedSize) ==
    /\ est.pc = "extract"
    /\ est' = [est EXCEPT
                 !.pc = "sampling",
                 !.sampleOriginalSize =
                     IF est.sampleCount = est.pageCount
                     THEN est.originalSize
                     ELSE extractedSize]
    /\ UNCHANGED estReturn

\* getPageCount / copyFile / extractPages / stat rejects: estimateSizes rejects
EstSampleFails ==
    /\ est.pc = "extract"
    /\ est' = [est EXCEPT !.pc = "rejected"]
    /\ UNCHANGED estReturn

\* compressPdf of the sample at QUALITY_LEVELS[i] resolves with compressedSize
EstLevelOk(compressedSize) ==
    /\ est.pc = "sampling"
    /\ est.i <= Len(QUALITY_LEVELS)
    /\ est' = [est EXCEPT
                 !.estimates =
                     Append(@, SizeEstimate(QUALITY_LEVELS[est.i],
                                EstimatedSize(est.originalSize, compressedSize,
                                              est.sampleOriginalSize),
                                compressedSize)),
                 !.i = @ + 1]
    /\ UNCHANGED estReturn

\* a mutation of EstLevelFails: the rejection leaves estimateSizes
EstLevelFailsRejects ==
    /\ est.pc = "sampling"
    /\ est.i <= Len(QUALITY_LEVELS)
    /\ est' = [est EXCEPT !.pc = "rejected"]
    /\ UNCHANGED estReturn

\* compressPdf of the sample rejects: logged, the loop continues
EstLevelFails ==
    /\ est.pc = "sampling"
    /\ est.i <= Len(QUALITY_LEVELS)
    /\ est' = [est EXCEPT !.i = @ + 1]
    /\ UNCHANGED estReturn

\* after the loop: sort, clamp, return
EstFinish ==
    /\ est.pc = "sampling"
    /\ est.i > Len(QUALITY_LEVELS)
    /\ est' = [est EXCEPT !.pc = "returned"]
    /\ estReturn' = EstimationResult(est.originalSize, est.pageCount, est.estimates)

(***************************************************************************)
(* compressToTargetSize, step by step                                      *)
(***************************************************************************)
\* locals after entry and the first loop iteration up to its compressPdf call
GateEntered(target, quality) ==
    [pc |-> "compressing", target |-> target,
     currentQuality |-> quality, attempts |-> 1,
     result |-> NoSize, calls |-> <<quality>>]

GateEnter(target, quality) ==
    /\ LoopGuard(0)
    /\ gate' = GateEntered(target, quality)
    /\ gateReturn' = NoVerified

\* compressPdf resolves with compressedSize: verification, then return or
\* the next loop iteration up to its compressPdf call
GateCompressOk(compressedSize) ==
    /\ gate.pc = "compressing"
    /\ IF VerificationGate(compressedSize, gate.target)
       THEN /\ gate' = [gate EXCEPT !.pc = "returned", !.result = compressedSize]
            /\ gateReturn' = VerifiedCompressionResult(compressedSize,
                                 gate.currentQuality, gate.attempts, TRUE)
       ELSE LET reduced == ReducedQuality(gate.currentQuality) IN
            IF GiveUpAtFloor(reduced, gate.attempts) \/ ~LoopGuard(gate.attempts)
            THEN /\ gate' = [gate EXCEPT !.pc = "returned",
                                         !.result = compressedSize,
                                         !.currentQuality = reduced]
                 /\ gateReturn' = VerifiedCompressionResult(compressedSize,
                                      reduced, gate.attempts, FALSE)
            ELSE /\ gate' = [gate EXCEPT !.result = compressedSize,
                                         !.currentQuality = reduced,
                                         !.attempts = @ + 1,
                                         !.calls = Append(@, reduced)]
                 /\ UNCHANGED gateReturn

\* compressPdf rejects: the rejection leaves compressToTargetSize
GateCompressFails ==
    /\ gate.pc = "compressing"
    /\ gate' = [gate EXCEPT !.pc = "threw"]
    /\ UNCHANGED gateReturn

(***************************************************************************)
(* Specification SpecEst: one estimateSizes invocation                     *)
(***************************************************************************)
FileSizes == 1..MaxSize
\* sizes Ghostscript may produce (a compressed file may be larger than its input)
OutputSizes == 0..(MaxSize + 1)

InitEst ==
    /\ jobs = NoJobs
    /\ request = NoRequest
    /\ est \in {EstEntered(o, p) : o \in FileSizes, p \in PageCounts}
    /\ estReturn = NoEstimation
    /\ gate = GateIdle
    /\ gateReturn = NoVerified
    /\ resolverIn = NoResolverIn
    /\ resolved = NoResolved
    /\ ServerIdle
    /\ backend = "any"
    /\ SideIdle

SampleReady ==
    /\ \E s \in FileSizes : EstSampleReady(s)
    /\ UNCHANGED <<jobVars, gateVars, resolverVars, backend, serverVars, sideVars>>

SampleFails ==
    /\ EstSampleFails
    /\ UNCHANGED <<jobVars, gateVars, resolverVars, backend, serverVars, sideVars>>

LevelOk ==
    /\ \E s \in OutputSizes : EstLevelOk(s)
    /\ UNCHANGED <<jobVars, gateVars, resolverVars, backend, serverVars, sideVars>>

LevelFails ==
    /\ EstLevelFails
    /\ UNCHANGED <<jobVars, gateVars, resolverVars, backend, serverVars, sideVars>>

Finish ==
    /\ EstFinish
    /\ UNCHANGED <<jobVars, gateVars, resolverVars, backend, serverVars, sideVars>>

NextEst == SampleReady \/ SampleFails \/ LevelOk \/ LevelFails \/ Finish

SpecEst == InitEst /\ [][NextEst]_vars

(***************************************************************************)
(* Specification SpecSample: the sampling policy of estimateSizes, from    *)
(* its entry to the sample file, over the page counts 1..MaxPages          *)
(***************************************************************************)
InitSample ==
    /\ jobs = NoJobs
    /\ request = NoRequest
    /\ est \in {EstEntered(MaxSize, p) : p \in 1..MaxPages}
    /\ estReturn = NoEstimation
    /\ gate = GateIdle
    /\ gateReturn = NoVerified
    /\ resolverIn = NoResolverIn
    /\ resolved = NoResolved
    /\ ServerIdle
    /\ backend = "any"
    /\ SideIdle

NextSample == SampleReady \/ SampleFails

SpecSample == InitSample /\ [][NextSample]_vars

(***************************************************************************)
(* Specification SpecSelect: selectRandomPages(pageCount, sampleCount) as  *)
(* estimateSizes calls it, for the page counts 1..MaxSelectPages;          *)
(* Math.random is any index into the pages still available                 *)
(***************************************************************************)
\* locals of selectRandomPages at its entry: available = [0, ..., totalPages - 1]
SelectEntered(totalPages, sampleCount) ==
    [pc |-> "picking", totalPages |-> totalPages, sampleCount |-> sampleCount,
     i |-> 0, pages |-> << >>,
     available |-> [k \in 1..totalPages |-> k - 1]]

\* available.splice(randomIndex, 1) (randomIndex is 1-based here)
Splice(s, randomIndex) ==
    [k \in 1..(Len(s) - 1) |-> IF k < randomIndex THEN s[k] ELSE s[k + 1]]

\* insertion of the number n into a sequence sorted ascending
RECURSIVE InsertNumber(_, _)
InsertNumber(n, s) ==
    IF s = << >> THEN <<n>>
    ELSE IF n < Head(s) THEN <<n>> \o s
    ELSE <<Head(s)>> \o InsertNumber(n, Tail(s))

\* pages.sort((a, b) => a - b)
RECURSIVE SortNumbers(_)
SortNumbers(s) ==
    IF s = << >> THEN << >>
    ELSE InsertNumber(Head(s), SortNumbers(Tail(s)))

\* a mutation of Picked: the picked page stays available
PickedNoSplice(sel, randomIndex) ==
    [sel EXCEPT !.pages = Append(@, sel.available[randomIndex]),
                !.i = @ + 1]

\* one iteration of the loop: pages.push(available[randomIndex]), splice
Picked(sel, randomIndex) ==
    [sel EXCEPT !.pages = Append(@, sel.available[randomIndex]),
                !.available = Splice(@, randomIndex),
                !.i = @ + 1]

\* the loop guard i < sampleCount && available.length > 0
SelectLoopGuard(sel) == sel.i < sel.sampleCount /\ Len(sel.available) > 0

SelectPick ==
    /\ selection.pc = "picking"
    /\ SelectLoopGuard(selection)
    /\ \E randomIndex \in 1..Len(selection.available) :
          selection' = Picked(selection, randomIndex)
    /\ UNCHANGED <<jobVars, estVars, gateVars, resolverVars, backend, serverVars,
                   compress, download, analysis, client>>

\* after the loop: return pages.sort(...)
SelectReturn ==
    /\ selection.pc = "picking"
    /\ ~SelectLoopGuard(selection)
    /\ selection' = [selection EXCEPT !.pc = "returned",
                                      !.pages = SortNumbers(@)]
    /\ UNCHANGED <<jobVars, estVars, gateVars, resolverVars, backend, serverVars,
                   compress, download, analysis, client>>

InitSelect ==
    /\ jobs = NoJobs
    /\ request = NoRequest
    /\ est = EstIdle
    /\ estReturn = NoEstimation
    /\ gate = GateIdle
    /\ gateReturn = NoVerified
    /\ resolverIn = NoResolverIn
    /\ resolved = NoResolved
    /\ ServerIdle
    /\ backend = "any"
    /\ selection \in {SelectEntered(p, SampleCount(p)) : p \in 1..MaxSelectPages}
    /\ compress = NoCompress
    /\ download = NoDownload
    /\ analysis = NoAnalysis
    /\ client = NoClient

NextSelect == SelectPick \/ SelectReturn

SpecSelect == InitSelect /\ [][NextSelect]_vars

(***************************************************************************)
(* Specification SpecSettings: compressPdf called again and again, each    *)
(* time at any quality 1..100, up to its settings and to its end           *)
(***************************************************************************)
\* locals of compressPdf when Ghostscript is started
CompressPdfEntered(quality) ==
    [pc |-> "running", quality |-> quality,
     pdfSettings |-> PdfSettings(quality), dpi |-> Dpi(quality)]

SettingsCall ==
    /\ compress.pc # "running"
    /\ \E q \in MIN_QUALITY..MAX_QUALITY : compress' = CompressPdfEntered(q)
    /\ UNCHANGED <<jobVars, estVars, gateVars, resolverVars, backend, serverVars,
                   selection, download, analysis, client>>

\* Ghostscript closes with code 0, or with another code or an error
SettingsEnds ==
    /\ compress.pc = "running"
    /\ \E end \in {"resolved", "rejected"} : compress' = [compress EXCEPT !.pc = end]
    /\ UNCHANGED <<jobVars, estVars, gateVars, resolverVars, backend, serverVars,
                   selection, download, analysis, client>>

InitSettings ==
    /\ jobs = NoJobs
    /\ request = NoRequest
    /\ est = EstIdle
    /\ estReturn = NoEstimation
    /\ gate = GateIdle
    /\ gateReturn = NoVerified
    /\ resolverIn = NoResolverIn
    /\ resolved = NoResolved
    /\ ServerIdle
    /\ backend = "any"
    /\ SideIdle

NextSettings == SettingsCall \/ SettingsEnds

SpecSettings == InitSettings /\ [][NextSettings]_vars

(***************************************************************************)
(* Specification SpecAnalyze: one analyzePdf invocation on a document of   *)
(* 1..MaxAnalysedSize bytes with up to MaxImages image streams             *)
(***************************************************************************)
\* estimatedSize of an image: the /Length its dictionary declares or, without
\* one, the size estimated from its dimensions; neither is bounded by the
\* size of the file
ImageEstimatedSizes == {0, 1, 5, MaxAnalysedSize, 7 * MaxAnalysedSize}

\* locals after the file was read and the document loaded
AnalyzeEntered(originalSize) ==
    [NoAnalysis EXCEPT !.pc = "images", !.originalSize = originalSize]

\* images.reduce((sum, img) => sum + img.estimatedSize, 0), one image
AnalyzeImage ==
    /\ analysis.pc = "images"
    /\ analysis.images < MaxImages
    /\ \E e \in ImageEstimatedSizes :
          analysis' = [analysis EXCEPT !.images = @ + 1,
                                       !.totalImageSize = @ + e]
    /\ UNCHANGED <<jobVars, estVars, gateVars, resolverVars, backend, serverVars,
                   selection, compress, download, client>>

\* Math.max(0, originalSize - totalImageSize)
FixedOverhead(originalSize, totalImageSize) == Max(0, originalSize - totalImageSize)

\* Math.round(totalImageSize * 0.15 + fixedOverhead * 0.85): the nearest
\* integer; where the exact value is a half, the double arithmetic gives
\* the integer below or the one above (0.15 * 1 + 0.85 * 31 is
\* 26.499999999999996)
MinimumAchievableSizes(totalImageSize, fixedOverhead) ==
    LET n == 15 * totalImageSize + 85 * fixedOverhead
    IN  IF n % 100 = 50 THEN {n \div 100, n \div 100 + 1}
        ELSE {MathRound(n, 100)}

\* the compression analysis and the return
AnalyzeFinish ==
    /\ analysis.pc = "images"
    /\ LET fixed == FixedOverhead(analysis.originalSize, analysis.totalImageSize)
       IN  \E m \in MinimumAchievableSizes(analysis.totalImageSize, fixed) :
              analysis' = [analysis EXCEPT
                             !.pc = "returned",
                             !.compressibleContent = analysis.totalImageSize,
                             !.fixedOverhead = fixed,
                             !.minimumAchievableSize = m]
    /\ UNCHANGED <<jobVars, estVars, gateVars, resolverVars, backend, serverVars,
                   selection, compress, download, client>>

InitAnalyze ==
    /\ jobs = NoJobs
    /\ request = NoRequest
    /\ est = EstIdle
    /\ estReturn = NoEstimation
    /\ gate = GateIdle
    /\ gateReturn = NoVerified
    /\ resolverIn = NoResolverIn
    /\ resolved = NoResolved
    /\ ServerIdle
    /\ backend = "any"
    /\ selection = NoSelection
    /\ compress = NoCompress
    /\ download = NoDownload
    /\ analysis \in {AnalyzeEntered(o) : o \in 1..MaxAnalysedSize}
    /\ client = NoClient

NextAnalyze == AnalyzeImage \/ AnalyzeFinish

SpecAnalyze == InitAnalyze /\ [][NextAnalyze]_vars

(***************************************************************************)
(* Specification SpecClient: the page of the browser client.  The handlers *)
(* run when the page shows their control (the upload zone in status idle,  *)
(* the compress and start-over buttons in status ready, start over in done *)
(* and failed, retry in failed); the overlays of uploading, estimating and *)
(* compressing offer none.  A pending entry is the continuation of an      *)
(* awaited request; the server answers anything.  Job ids are the numbers  *)
(* of the uploads.  Progress messages and toasts are not modelled.         *)
(***************************************************************************)
\* the continuation of an awaited request for a job (upload: for the
\* upload with that number); slot tells overlapping callbacks apart
Pending(kind, job, slot) == [kind |-> kind, job |-> job, slot |-> slot]

\* a slot no status request or estimate fetch in flight occupies
FreeSlots(c) ==
    {k \in 1..MaxOverlap :
        \A q \in c.pending : q.kind \in {"status", "estimates"} => q.slot # k}

\* cleanupPolling: clearInterval(pollIntervalRef), clearTimeout(pollTimeoutRef)
CleanupPolling(c) ==
    [c EXCEPT !.intervals = @ \ {c.pollIntervalRef},
              !.timeouts = @ \ {c.pollTimeoutRef},
              !.pollIntervalRef = 0,
              !.pollTimeoutRef = 0]

\* cancelCurrentJob
cancelCurrentJob(c) == [CleanupPolling(c) EXCEPT !.activeJobIdRef = 0]

\* setStatus('failed'), setFailureType(type)
ClientFailed(c, type) == [c EXCEPT !.status = "failed", !.failureType = type]

\* handleFileSelect(file) up to its await uploadPdf
handleFileSelect(c) ==
    [cancelCurrentJob(c) EXCEPT
        !.file = TRUE, !.jobId = 0, !.estimates = 0, !.compressionResult = 0,
        !.selectedChoice = FALSE, !.failureType = "none",
        !.status = "uploading",
        !.uploads = @ + 1,
        !.pending = @ \cup {Pending("upload", c.uploads + 1, 1)}]

\* handleCompress up to its await compressToSize / compressWithQuality
handleCompress(c) ==
    IF c.jobId = 0 \/ ~c.file \/ ~c.selectedChoice THEN c
    ELSE [c EXCEPT !.status = "compressing",
                   !.pending = @ \cup {Pending("compress", c.jobId, 1)}]

\* handleReset
handleReset(c) ==
    [cancelCurrentJob(c) EXCEPT
        !.file = FALSE, !.jobId = 0, !.estimates = 0, !.compressionResult = 0,
        !.selectedChoice = FALSE, !.failureType = "none", !.status = "idle"]

\* handleRetry
handleRetry(c) ==
    IF ~c.file THEN handleReset(c)
    ELSE IF c.failureType = "compression" /\ c.jobId # 0 /\ c.selectedChoice
    THEN handleCompress([c EXCEPT !.failureType = "none"])
    ELSE handleFileSelect(c)

\* the variables the client specification leaves alone
ClientOnly ==
    UNCHANGED <<jobVars, estVars, gateVars, resolverVars, backend, serverVars,
                selection, compress, download, analysis>>

\* a file is dropped on the upload zone (the backend is connected)
ClientFileSelect ==
    /\ client.status = "idle"
    /\ client.uploads < MaxUploads
    /\ client' = handleFileSelect(client)
    /\ ClientOnly

\* uploadPdf resolves: the job becomes the active one, the polling starts
ClientUploadResolves ==
    /\ \E p \in client.pending :
          /\ p.kind = "upload"
          /\ client' = [client EXCEPT
                           !.pending = @ \ {p},
                           !.activeJobIdRef = p.job,
                           !.jobId = p.job,
                           !.status = "estimating",
                           !.pollIntervalRef = p.job,
                           !.pollTimeoutRef = p.job,
                           !.intervals = @ \cup {p.job},
                           !.timeouts = @ \cup {p.job}]
    /\ ClientOnly

\* uploadPdf rejects
ClientUploadRejects ==
    /\ \E p \in client.pending :
          /\ p.kind = "upload"
          /\ client' = ClientFailed([CleanupPolling(client) EXCEPT
                                        !.pending = @ \ {p}], "upload")
    /\ ClientOnly

\* the interval callback of a job runs: for the active job it requests the
\* status (for another job it returns at once)
ClientIntervalTick ==
    /\ \E j \in client.intervals :
          /\ client.activeJobIdRef = j
          /\ FreeSlots(client) # {}
          /\ client' = [client EXCEPT !.pending =
                           @ \cup {Pending("status", j,
                                     CHOOSE k \in FreeSlots(client) :
                                        \A l \in FreeSlots(client) : k <= l)}]
    /\ ClientOnly

\* getJobStatus resolves with a status, or rejects ("error"): the rest of
\* the interval callback up to its await getEstimates
ClientStatusResponds ==
    /\ \E p \in client.pending,
          s \in {"estimating", "ready", "done", "failed", "error"} :
          /\ p.kind = "status"
          /\ LET c == [client EXCEPT !.pending = @ \ {p}]
             IN  client' =
                   IF s = "error" \/ client.activeJobIdRef # p.job THEN c
                   ELSE IF s \in {"ready", "done"}
                   THEN [CleanupPolling(c) EXCEPT !.pending =
                            @ \cup {Pending("estimates", p.job, p.slot)}]
                   ELSE IF s = "failed"
                   THEN ClientFailed(CleanupPolling(c), "analysis")
                   ELSE c
    /\ ClientOnly

\* getEstimates resolves: setEstimates, setStatus('ready')
ClientEstimatesResolve ==
    /\ \E p \in client.pending :
          /\ p.kind = "estimates"
          /\ client' = [client EXCEPT !.pending = @ \ {p},
                                      !.estimates = p.job,
                                      !.status = "ready"]
    /\ ClientOnly

\* getEstimates rejects
ClientEstimatesReject ==
    /\ \E p \in client.pending :
          /\ p.kind = "estimates"
          /\ client' = ClientFailed([client EXCEPT !.pending = @ \ {p}], "analysis")
    /\ ClientOnly

\* the 120 s timeout of a job fires
ClientTimeout ==
    /\ \E j \in client.timeouts :
          LET c == [client EXCEPT !.timeouts = @ \ {j}]
          IN  client' = IF client.activeJobIdRef = j
                        THEN ClientFailed(CleanupPolling(c), "analysis")
                        ELSE c
    /\ ClientOnly

\* a quality or a target is chosen in the estimate display
ClientChoose ==
    /\ client.status = "ready"
    /\ client.estimates # 0
    /\ ~client.selectedChoice
    /\ client' = [client EXCEPT !.selectedChoice = TRUE]
    /\ ClientOnly

\* the compress button
ClientCompress ==
    /\ client.status = "ready"
    /\ client.estimates # 0
    /\ client.selectedChoice
    /\ client' = handleCompress(client)
    /\ client' # client
    /\ ClientOnly

\* the compress request resolves: pollJobStatus starts
ClientCompressAccepted ==
    /\ \E p \in client.pending :
          /\ p.kind = "compress"
          /\ client' = [client EXCEPT !.pending =
                           (@ \ {p}) \cup {Pending("compressPoll", p.job, 1)}]
    /\ ClientOnly

\* pollJobStatus returns 'done' with a result: the result is shown
ClientCompressDone ==
    /\ \E p \in client.pending :
          /\ p.kind = "compressPoll"
          /\ client' = [client EXCEPT !.pending = @ \ {p},
                                      !.compressionResult = p.job,
                                      !.status = "done"]
    /\ ClientOnly

\* the compress request rejects, or pollJobStatus returns 'failed' or
\* throws its timeout
ClientCompressFails ==
    /\ \E p \in client.pending :
          /\ p.kind \in {"compress", "compressPoll"}
          /\ client' = ClientFailed([client EXCEPT !.pending = @ \ {p}],
                                    "compression")
    /\ ClientOnly

\* a start-over button
ClientReset ==
    /\ \/ client.status = "ready" /\ client.estimates # 0
       \/ client.status = "done" /\ client.compressionResult # 0
       \/ client.status = "failed"
    /\ client' = handleReset(client)
    /\ ClientOnly

\* the retry button
ClientRetry ==
    /\ client.status = "failed"
    /\ client' = handleRetry(client)
    /\ client'.uploads <= MaxUploads
    /\ ClientOnly

InitClient ==
    /\ jobs = NoJobs
    /\ request = NoRequest
    /\ est = EstIdle
    /\ estReturn = NoEstimation
    /\ gate = GateIdle
    /\ gateReturn = NoVerified
    /\ resolverIn = NoResolverIn
    /\ resolved = NoResolved
    /\ ServerIdle
    /\ backend = "any"
    /\ SideIdle

NextClient ==
    \/ ClientFileSelect
    \/ ClientUploadResolves
    \/ ClientUploadRejects
    \/ ClientIntervalTick
    \/ ClientStatusResponds
    \/ ClientEstimatesResolve
    \/ ClientEstimatesReject
    \/ ClientTimeout
    \/ ClientChoose
    \/ ClientCompress
    \/ ClientCompressAccepted
    \/ ClientCompressDone
    \/ ClientCompressFails
    \/ ClientReset
    \/ ClientRetry

SpecClient == InitClient /\ [][NextClient]_vars

(***************************************************************************)
(* Specification SpecGate: one compressToTargetSize invocation             *)
(***************************************************************************)
Qualities == MIN_QUALITY..MAX_QUALITY

InitGate ==
    /\ jobs = NoJobs
    /\ request = NoRequest
    /\ est = EstIdle
    /\ estReturn = NoEstimation
    /\ gate \in {GateEntered(t, q) : t \in FileSizes, q \in Qualities}
    /\ gateReturn = NoVerified
    /\ resolverIn = NoResolverIn
    /\ resolved = NoResolved
    /\ ServerIdle
    /\ backend = "any"
    /\ SideIdle

CompressOk ==
    /\ \E s \in OutputSizes : GateCompressOk(s)
    /\ UNCHANGED <<jobVars, estVars, resolverVars, backend, serverVars, sideVars>>

CompressFails ==
    /\ GateCompressFails
    /\ UNCHANGED <<jobVars, estVars, resolverVars, backend, serverVars, sideVars>>

NextGate == CompressOk \/ CompressFails

SpecGate == InitGate /\ [][NextGate]_vars

\* every compressPdf call returns (resolves or rejects)
SpecGateFair == SpecGate /\ WF_vars(NextGate)

(***************************************************************************)
(* Specification SpecResolve: findBestQuality applied to the curves that   *)
(* estimateSizes returns                                                   *)
(***************************************************************************)
\* marks a quality level whose sample compression failed
Failed == -1

\* the estimates array after the sampling loop of a document whose sample is
\* the whole file of MaxSize bytes: level i compressed to f[i] bytes or failed
RawCurve(f) ==
    SelectSeq([i \in 1..Len(QUALITY_LEVELS) |->
                  SizeEstimate(QUALITY_LEVELS[i],
                               IF f[i] = Failed THEN Failed
                               ELSE EstimatedSize(MaxSize, f[i], MaxSize),
                               f[i])],
              LAMBDA e : e.sampleSize # Failed)

\* the curves estimateSizes returns for such a document
ReturnedCurves ==
    {SortAndClamp(RawCurve(f)) :
        f \in [1..Len(QUALITY_LEVELS) -> {Failed} \cup (0..MaxSize)]}

\* a curve given by its four estimates, as estimateSizes returns it
Curve(e25, e50, e75, e100) ==
    <<SizeEstimate(25, e25, e25), SizeEstimate(50, e50, e50),
      SizeEstimate(75, e75, e75), SizeEstimate(100, e100, e100)>>

\* [(25,1MB),(50,2MB),(75,4MB),(100,8MB)]
BoundaryCurve == Curve(1 * MB, 2 * MB, 4 * MB, 8 * MB)
\* [(25,5MB),(50,12MB),(75,28MB),(100,45MB)]
ScenarioCurve == Curve(5 * MB, 12 * MB, 28 * MB, 45 * MB)

ResolverInputs ==
    {[estimates |-> c, target |-> t] : c \in ReturnedCurves, t \in 1..(MaxSize + 1)}
    \cup {[estimates |-> BoundaryCurve, target |-> t] :
             t \in {10 * MB, MB \div 2, 3 * MB}}
    \cup {[estimates |-> ScenarioCurve, target |-> 25 * MB]}

InitResolve ==
    /\ jobs = NoJobs
    /\ request = NoRequest
    /\ est = EstIdle
    /\ estReturn = NoEstimation
    /\ gate = GateIdle
    /\ gateReturn = NoVerified
    /\ resolverIn \in ResolverInputs
    /\ resolved = NoResolved
    /\ ServerIdle
    /\ backend = "any"
    /\ SideIdle

\* the call findBestQuality(estimates, targetSizeBytes)
Resolve ==
    /\ resolved = NoResolved
    /\ resolved' = findBestQuality(resolverIn.estimates, resolverIn.target)
    /\ UNCHANGED <<resolverIn, jobVars, estVars, gateVars, backend, serverVars, sideVars>>

NextResolve == Resolve

SpecResolve == InitResolve /\ [][NextResolve]_vars

(***************************************************************************)
(* Specification SpecRetarget: findBestQuality called again and again on   *)
(* one curve, each time for any target                                     *)
(***************************************************************************)
\* the targets tried on a curve: bytes for the curves of small documents,
\* half megabytes up to 50 MB for the two curves in megabytes
RetargetTargets(curve) ==
    IF curve \in {BoundaryCurve, ScenarioCurve}
    THEN {k * (MB \div 2) : k \in 1..100}
    ELSE 1..(MaxSize + 1)

\* the next call findBestQuality(estimates, targetSizeBytes) on the curve
Retarget ==
    /\ resolved # NoResolved
    /\ \E t \in RetargetTargets(resolverIn.estimates) :
          /\ resolverIn' = [resolverIn EXCEPT !.target = t]
          /\ resolved' = findBestQuality(resolverIn.estimates, t)
    /\ UNCHANGED <<jobVars, estVars, gateVars, backend, serverVars, sideVars>>

NextRetarget == Resolve \/ Retarget

SpecRetarget == InitResolve /\ [][NextRetarget]_vars

(***************************************************************************)
(* Specification SpecE2E: the target path of queueCompression,             *)
(* findBestQuality followed by compressToTargetSize at the resolved        *)
(* quality, on a curve with all four ladder levels                         *)
(***************************************************************************)
\* the ladder quality for which compressPdf chooses the same Ghostscript
\* settings as for quality q
LadderQuality(q) ==
    CHOOSE l \in {QUALITY_LEVELS[i] : i \in 1..Len(QUALITY_LEVELS)} :
        Dpi(l) = Dpi(q) /\ PdfSettings(l) = PdfSettings(q)

\* output size of a deterministic Ghostscript whose full-document sizes at
\* the ladder qualities are the curve's estimates
CurveSize(curve, q) ==
    LET e == CHOOSE x \in {curve[k] : k \in 1..Len(curve)} :
                 x.quality = LadderQuality(q)
    IN  e.estimatedSize

IsMonotonic(curve) ==
    \A a, b \in 1..Len(curve) :
        curve[a].quality < curve[b].quality
            => curve[a].estimatedSize <= curve[b].estimatedSize

ScenarioInput == [estimates |-> ScenarioCurve, target |-> 25 * MB]

\* inputs for the deterministic backend: non-decreasing four-level curves
CurveBackendInputs ==
    {x \in ResolverInputs :
        Len(x.estimates) = Len(QUALITY_LEVELS) /\ IsMonotonic(x.estimates)}

\* full-document output sizes of an arbitrary Ghostscript for a given target
SizesAround(target) ==
    IF target > MaxSize + 1 THEN {target - MB, target + MB} ELSE OutputSizes

InitE2E ==
    /\ jobs = NoJobs
    /\ request = NoRequest
    /\ est = EstIdle
    /\ estReturn = NoEstimation
    /\ gate = GateIdle
    /\ gateReturn = NoVerified
    /\ resolved = NoResolved
    /\ ServerIdle
    /\ \/ resolverIn \in CurveBackendInputs /\ backend = "curve"
       \/ resolverIn = ScenarioInput /\ backend = "any"
    /\ SideIdle

E2EResolve ==
    /\ resolved = NoResolved
    /\ resolved' = findBestQuality(resolverIn.estimates, resolverIn.target)
    /\ UNCHANGED <<resolverIn, jobVars, estVars, gateVars, backend, serverVars, sideVars>>

E2EGateEnter ==
    /\ resolved # NoResolved
    /\ gate.pc = "idle"
    /\ GateEnter(resolverIn.target, resolved.quality)
    /\ UNCHANGED <<jobVars, estVars, resolverVars, backend, serverVars, sideVars>>

E2ECompressOk ==
    /\ \E s \in (IF backend = "curve"
                 THEN {CurveSize(resolverIn.estimates, gate.currentQuality)}
                 ELSE SizesAround(gate.target)) :
           GateCompressOk(s)
    /\ UNCHANGED <<jobVars, estVars, resolverVars, backend, serverVars, sideVars>>

E2ECompressFails ==
    /\ backend = "any"
    /\ GateCompressFails
    /\ UNCHANGED <<jobVars, estVars, resolverVars, backend, serverVars, sideVars>>

NextE2E == E2EResolve \/ E2EGateEnter \/ E2ECompressOk \/ E2ECompressFails

SpecE2E == InitE2E /\ [][NextE2E]_vars

(***************************************************************************)
(* Specification Spec: the life cycle of a job in direct mode (no Bull     *)
(* queue): createJob and the background estimation, POST compress with     *)
(* queueCompression, the verification gate, the completion of the job.     *)
(* The progress and progressMessage fields of a job are not modelled; the  *)
(* model follows one queueCompression invocation at a time.                *)
(***************************************************************************)
JobIds == {"job1"}

\* sizes of the uploaded document, of the extracted sample, of the
\* compressed samples and of the compressed full document
JobOriginalSizes == {MaxJobSize}
JobSampleSizes == {1, MaxJobSize}
JobOutputSizes == 0..(MaxJobSize + 1)

\* "no value" (undefined) for the quality and targetSizeMB of a request body
NoQuality == 0
NoTarget == [num |-> 0, den |-> 1]

\* request bodies: quality, and targetSizeMB as a fraction num / den of a MB
RequestQualities == {NoQuality, 60}
RequestTargetsMB ==
    {NoTarget} \cup {[num |-> b, den |-> MiB] : b \in 1..MaxJobSize}

\* targetSizeBytes = targetSizeMB * 1024 * 1024
TargetSizeBytes(targetSizeMB) == (targetSizeMB.num * 1024 * 1024) \div targetSizeMB.den

\* a mutation of updateJob: an update of a job that is not in the map
\* stores {...updates} under its id
updateJobUpsert(j, updates) ==
    [k \in DOMAIN jobs \cup {j} |->
        IF k = j
        THEN [f \in (IF j \in DOMAIN jobs THEN DOMAIN jobs[j] ELSE {})
                        \cup DOMAIN updates |->
                 IF f \in DOMAIN updates THEN updates[f] ELSE jobs[j][f]]
        ELSE jobs[k]]

\* updateJob: {...job, ...updates} if the job is in the map, else nothing
updateJob(j, updates) ==
    IF j \in DOMAIN jobs
    THEN [k \in DOMAIN jobs |->
            IF k = j
            THEN [f \in DOMAIN jobs[j] \cup DOMAIN updates |->
                     IF f \in DOMAIN updates THEN updates[f] ELSE jobs[j][f]]
            ELSE jobs[k]]
    ELSE jobs

HasEstimates(j) == "estimates" \in DOMAIN jobs[j]

\* createJob: jobs.set(job.id, job), then startEstimation up to its await
CreateJob(j, origSize, pages) ==
    /\ j \notin DOMAIN jobs
    /\ est.pc = "idle"
    /\ jobs' = [k \in DOMAIN jobs \cup {j} |->
                  IF k = j
                  THEN [status |-> "estimating", originalSize |-> origSize]
                  ELSE jobs[k]]
    /\ EstEnter(origSize, pages)
    /\ UNCHANGED <<request, gateVars, resolverVars, backend, serverVars, sideVars>>

\* estimateSizes proceeds; its progress callback updates progressMessage only
JobSampleReady ==
    /\ \E s \in JobSampleSizes : EstSampleReady(s)
    /\ UNCHANGED <<jobVars, gateVars, resolverVars, backend, serverVars, sideVars>>

JobLevelOk ==
    /\ \E s \in JobSampleSizes : EstLevelOk(s)
    /\ UNCHANGED <<jobVars, gateVars, resolverVars, backend, serverVars, sideVars>>

JobLevelFails ==
    /\ EstLevelFails
    /\ UNCHANGED <<jobVars, gateVars, resolverVars, backend, serverVars, sideVars>>

\* a mutation of EstimationFailed: the job is marked failed
EstimationFailedMarksFailed(j) ==
    /\ EstSampleFails
    /\ jobs' = updateJob(j, [status |-> "failed", error |-> "Estimation failed"])
    /\ UNCHANGED <<request, gateVars, resolverVars, backend, serverVars, sideVars>>

\* startEstimation, catch branch: estimateSizes rejected
EstimationFailed(j) ==
    /\ EstSampleFails
    /\ jobs' = updateJob(j, [status |-> "ready",
                             error |-> "Estimation failed, but you can still compress"])
    /\ UNCHANGED <<request, gateVars, resolverVars, backend, serverVars, sideVars>>

\* startEstimation after the await: estimateSizes returned
EstimationDone(j) ==
    /\ EstFinish
    /\ jobs' = updateJob(j, [status |-> "ready", estimates |-> estReturn'])
    /\ UNCHANGED <<request, gateVars, resolverVars, backend, serverVars, sideVars>>

\* a mutation of FinalQuality: a run for a target starts at the default
\* quality
FinalQualityNoResolver(job, quality, targetSizeBytes) ==
    IF targetSizeBytes # 0 \/ quality = NoQuality THEN DEFAULT_QUALITY
    ELSE quality

\* queueCompression: finalQuality = options.quality || 75, replaced by the
\* quality of findBestQuality when a target is given and the job has estimates
FinalQuality(job, quality, targetSizeBytes) ==
    IF targetSizeBytes # 0 /\ "estimates" \in DOMAIN job
    THEN findBestQuality(job.estimates.estimates, targetSizeBytes).quality
    ELSE IF quality = NoQuality THEN DEFAULT_QUALITY
    ELSE quality

\* POST /:id/compress accepted, and queueCompression in direct mode up to
\* the first compressPdf call; request keeps the body (quality, targetSizeMB)
\* and the options derived from it
PostCompress(j, quality, targetSizeMB) ==
    /\ j \in DOMAIN jobs
    /\ jobs[j].status \notin {"compressing", "done"}
    /\ ~(quality = NoQuality /\ targetSizeMB = NoTarget)
    /\ quality # NoQuality => quality \in MIN_QUALITY..MAX_QUALITY
    /\ request = NoRequest
    /\ LET targetSizeBytes == TargetSizeBytes(targetSizeMB)
           withTarget == targetSizeMB # NoTarget
           best == findBestQuality(jobs[j].estimates.estimates, targetSizeBytes)
           \* the route: compressionQuality
           compressionQuality ==
               IF withTarget /\ HasEstimates(j) THEN best.quality ELSE quality
           \* queueCompression(job.id, {quality: compressionQuality, targetSizeBytes})
           finalQuality == FinalQuality(jobs[j], compressionQuality, targetSizeBytes)
       IN  /\ jobs' = updateJob(j, [status |-> "compressing"])
           /\ IF withTarget
              THEN /\ GateEnter(targetSizeBytes, finalQuality)
                   /\ request' = [mode |-> "target", quality |-> quality,
                                  targetSizeMB |-> targetSizeMB,
                                  finalQuality |-> finalQuality,
                                  targetSizeBytes |-> targetSizeBytes]
                   /\ IF HasEstimates(j)
                      THEN /\ resolverIn' = [estimates |-> jobs[j].estimates.estimates,
                                             target |-> targetSizeBytes]
                           /\ resolved' = best
                      ELSE UNCHANGED resolverVars
              ELSE /\ request' = [mode |-> "quality", quality |-> quality,
                                  targetSizeMB |-> targetSizeMB,
                                  finalQuality |-> finalQuality]
                   /\ UNCHANGED <<gateVars, resolverVars>>
    /\ UNCHANGED <<estVars, backend, serverVars, sideVars>>

\* a compressPdf call of the gate resolves; when the gate returns,
\* queueCompression marks the job done
TargetCompressOk(j) ==
    /\ request.mode = "target"
    /\ \E s \in JobOutputSizes : GateCompressOk(s)
    /\ IF gate'.pc = "returned"
       THEN /\ jobs' = updateJob(j, [status |-> "done",
                          compressionResult |->
                              [compressedSize |-> gateReturn'.compressedSize,
                               quality |-> gateReturn'.quality]])
            /\ request' = NoRequest
       ELSE UNCHANGED <<jobs, request>>
    /\ UNCHANGED <<estVars, resolverVars, backend, serverVars, sideVars>>

\* a compressPdf call of the gate rejects: queueCompression, catch branch
TargetCompressFails(j) ==
    /\ request.mode = "target"
    /\ GateCompressFails
    /\ jobs' = updateJob(j, [status |-> "failed", error |-> "Compression failed"])
    /\ request' = NoRequest
    /\ UNCHANGED <<estVars, resolverVars, backend, serverVars, sideVars>>

\* a mutation of QualityCompressOk: the completion clears the estimates
QualityCompressOkClearsEstimates(j) ==
    /\ request.mode = "quality"
    /\ \E s \in JobOutputSizes :
          jobs' = updateJob(j, [status |-> "done",
                      estimates |-> NoEstimation,
                      compressionResult |->
                          [compressedSize |-> s, quality |-> request.finalQuality]])
    /\ request' = NoRequest
    /\ UNCHANGED <<estVars, gateVars, resolverVars, backend, serverVars, sideVars>>

\* quality-only request: compressPdf resolves
QualityCompressOk(j) ==
    /\ request.mode = "quality"
    /\ \E s \in JobOutputSizes :
          jobs' = updateJob(j, [status |-> "done",
                      compressionResult |->
                          [compressedSize |-> s, quality |-> request.finalQuality]])
    /\ request' = NoRequest
    /\ UNCHANGED <<estVars, gateVars, resolverVars, backend, serverVars, sideVars>>

\* quality-only request: compressPdf rejects
QualityCompressFails(j) ==
    /\ request.mode = "quality"
    /\ jobs' = updateJob(j, [status |-> "failed", error |-> "Compression failed"])
    /\ request' = NoRequest
    /\ UNCHANGED <<estVars, gateVars, resolverVars, backend, serverVars, sideVars>>

Init ==
    /\ jobs = NoJobs
    /\ request = NoRequest
    /\ est = EstIdle
    /\ estReturn = NoEstimation
    /\ gate = GateIdle
    /\ gateReturn = NoVerified
    /\ resolverIn = NoResolverIn
    /\ resolved = NoResolved
    /\ ServerIdle
    /\ backend = "any"
    /\ SideIdle

Next ==
    \E j \in JobIds :
        \/ \E o \in JobOriginalSizes, p \in PageCounts : CreateJob(j, o, p)
        \/ JobSampleReady
        \/ JobLevelOk
        \/ JobLevelFails
        \/ EstimationFailed(j)
        \/ EstimationDone(j)
        \/ \E q \in RequestQualities, t \in RequestTargetsMB : PostCompress(j, q, t)
        \/ TargetCompressOk(j)
        \/ TargetCompressFails(j)
        \/ QualityCompressOk(j)
        \/ QualityCompressFails(j)

Spec == Init /\ [][Next]_vars

(***************************************************************************)
(* Specification SpecUnits: compress requests with a target of a whole     *)
(* number of megabytes on a job without estimates, and outputs of          *)
(* Ghostscript around the decimal and the binary size of the target        *)
(***************************************************************************)
\* the size of the uploaded document
UnitsOriginalSize == 30 * MB

\* targetSizeMB of the request bodies: 1, and the 25 MB attachment limit
UnitsTargetsMB == {[num |-> 1, den |-> 1], [num |-> 25, den |-> 1]}

\* sizes of the compressed document around n decimal and n binary megabytes
UnitsOutputSizes(n) == {n * MB - 1, n * MB, n * MB + 1, n * MiB, n * MiB + 1}

UnitsCreateJob(j) == \E p \in PageCounts : CreateJob(j, UnitsOriginalSize, p)

UnitsPostCompress(j) ==
    \E q \in RequestQualities, t \in UnitsTargetsMB : PostCompress(j, q, t)

\* a compressPdf call of the gate resolves; when the gate returns,
\* queueCompression marks the job done
UnitsCompressOk(j) ==
    /\ request.mode = "target"
    /\ \E s \in UnitsOutputSizes(request.targetSizeMB.num) : GateCompressOk(s)
    /\ IF gate'.pc = "returned"
       THEN /\ jobs' = updateJob(j, [status |-> "done",
                          compressionResult |->
                              [compressedSize |-> gateReturn'.compressedSize,
                               quality |-> gateReturn'.quality]])
            /\ request' = NoRequest
       ELSE UNCHANGED <<jobs, request>>
    /\ UNCHANGED <<estVars, resolverVars, backend, serverVars, sideVars>>

NextUnits ==
    \E j \in JobIds :
        \/ UnitsCreateJob(j)
        \/ EstimationFailed(j)
        \/ UnitsPostCompress(j)
        \/ UnitsCompressOk(j)
        \/ TargetCompressFails(j)

SpecUnits == Init /\ [][NextUnits]_vars

(***************************************************************************)
(* Specification SpecServer: the server with several jobs, in direct mode  *)
(* or with the Bull queue: upload, the background estimation, POST         *)
(* compress, the Bull processor, the verification gate, DELETE, and the    *)
(* files of TEMP_DIR.  Every document has two pages (the sample is a copy  *)
(* of the upload).  Ghostscript exit failures of sample compressions are   *)
(* followed in SpecEst, not here; cleanupJob is one step; per job one      *)
(* compression run at a time is followed; compress requests are sent for   *)
(* the jobs of CompressJobIds, the other jobs are uploaded, estimated and  *)
(* deleted.                                                                *)
(***************************************************************************)
\* compressionQueue.process(1, ...)
QUEUE_CONCURRENCY == 1
\* defaultJobOptions.attempts
QUEUE_ATTEMPTS == 2

\* sizes (bytes) of the uploads, compressed samples and compressed documents
ServerOriginalSizes == {2}
ServerSampleSizes == {1}
ServerOutputSizes == {1, 2}
ServerPageCounts == {2}

\* request bodies: a quality of 60, or a target of one byte
ServerRequests ==
    {[quality |-> 60, targetSizeMB |-> NoTarget],
     [quality |-> NoQuality, targetSizeMB |-> [num |-> 1, den |-> MiB]]}

\* file names in TEMP_DIR: the text before the first "_" and the rest.
\* multer stores an upload as upload_<unique suffix>.pdf (the suffix is
\* identified with the job created for the upload)
UploadFile(j) == [prefix |-> "upload", rest |-> j]
\* getJobPath(jobId, filename) and `${jobId}_sample.pdf`
JobFile(j, filename) == [prefix |-> j, rest |-> filename]
SampleFile(j) == JobFile(j, "sample.pdf")
CompressedFile(j) == JobFile(j, "compressed.pdf")

\* f.startsWith(`${jobId}_`)
StartsWithJobId(f, j) == f.prefix = j

\* cleanupJob: the directory without the files that start with the job id
cleanupJob(j) == {f \in files : ~StartsWithJobId(f, j)}

\* compressPdf up to the spawn: fs.stat(inputPath) rejects when the input is
\* missing, otherwise the Ghostscript subprocess is started
Spawns(inputFile, dir) == inputFile \in dir

\* the data of a Bull job
BullJob(j, quality, targetSizeBytes, attemptsMade) ==
    [jobId |-> j, quality |-> quality, targetSizeBytes |-> targetSizeBytes,
     attemptsMade |-> attemptsMade]

\* Bull after the processor threw: the job is queued again while attempts
\* remain
BullRetry(waiting, b) ==
    IF b.attemptsMade + 1 < QUEUE_ATTEMPTS
    THEN Append(waiting, [b EXCEPT !.attemptsMade = @ + 1])
    ELSE waiting

\* POST /api/upload: multer stores the file, createJob registers the job,
\* startEstimation runs up to the first await of estimateSizes
SrvUpload(j) ==
    /\ tasks[j].est.pc = "none"
    /\ \E o \in ServerOriginalSizes :
          jobs' = [k \in DOMAIN jobs \cup {j} |->
                     IF k = j
                     THEN [status |-> "estimating", originalSize |-> o,
                           uploadPath |-> UploadFile(j)]
                     ELSE jobs[k]]
    /\ files' = files \cup {UploadFile(j)}
    /\ tasks' = [tasks EXCEPT ![j].est =
                    [pc |-> "extract", i |-> 1, estimates |-> << >>, gs |-> FALSE]]
    /\ UNCHANGED <<compressionQueue, http, engineVars>>

\* estimateSizes: the sample file is written and the first sample
\* compression is called
SrvSampleReady(j) ==
    /\ tasks[j].est.pc = "extract"
    /\ files' = files \cup {SampleFile(j)}
    /\ tasks' = [tasks EXCEPT ![j].est.pc = "sampling",
                              ![j].est.gs = Spawns(SampleFile(j), files')]
    /\ UNCHANGED <<jobs, compressionQueue, http, engineVars>>

\* estimateSizes rejects before the sampling loop: startEstimation, catch branch
SrvEstimationFails(j) ==
    /\ tasks[j].est.pc = "extract"
    /\ tasks' = [tasks EXCEPT ![j].est = [EstTaskIdle EXCEPT !.pc = "ended"]]
    /\ jobs' = updateJob(j, [status |-> "ready",
                             error |-> "Estimation failed, but you can still compress"])
    /\ UNCHANGED <<compressionQueue, files, http, engineVars>>

\* the sample compression of level i ends (resolves with a size if the
\* subprocess ran, rejects if fs.stat found no sample); then the next
\* level is called or, after the last one, the sample is unlinked, the
\* curve is returned and startEstimation stores it
SrvLevelEnds(j) ==
    /\ tasks[j].est.pc = "sampling"
    /\ \E s \in ServerSampleSizes, p \in ServerPageCounts :
         LET e == tasks[j].est
             \* originalSize, read by fs.stat at entry (the upload is never
             \* rewritten; all uploads of this specification have one size)
             o == IF j \in DOMAIN jobs THEN jobs[j].originalSize
                  ELSE CHOOSE x \in ServerOriginalSizes : TRUE
             estimates ==
                 IF e.gs
                 THEN Append(e.estimates,
                             SizeEstimate(QUALITY_LEVELS[e.i], EstimatedSize(o, s, o), s))
                 ELSE e.estimates
         IN  IF e.i < Len(QUALITY_LEVELS)
             THEN /\ tasks' = [tasks EXCEPT
                                 ![j].est.i = @ + 1,
                                 ![j].est.estimates = estimates,
                                 ![j].est.gs = Spawns(SampleFile(j), files)]
                  /\ UNCHANGED <<jobs, files>>
             ELSE /\ tasks' = [tasks EXCEPT
                                 ![j].est = [EstTaskIdle EXCEPT !.pc = "ended"]]
                  /\ files' = files \ {SampleFile(j)}
                  /\ jobs' = updateJob(j, [status |-> "ready",
                                 estimates |-> EstimationResult(o, p, estimates)])
    /\ UNCHANGED <<compressionQueue, http, engineVars>>

\* the compression run of a job at its first compressPdf call:
\* options.quality || 75, the resolver when a target and estimates exist
CompStarted(job, quality, targetSizeBytes) ==
    LET finalQuality ==
            IF targetSizeBytes # 0 /\ "estimates" \in DOMAIN job
            THEN findBestQuality(job.estimates.estimates, targetSizeBytes).quality
            ELSE IF quality = NoQuality THEN DEFAULT_QUALITY
            ELSE quality
    IN  [pc |-> "running", targetSizeBytes |-> targetSizeBytes,
         currentQuality |-> finalQuality, attempts |-> 1,
         gs |-> Spawns(job.uploadPath, files), returned |-> NoVerified]

\* POST /:id/compress accepted, and queueCompression: in Bull mode the job
\* is added to the queue and the response is sent; in direct mode the
\* compression runs up to its first compressPdf call
SrvPostCompress(j, quality, targetSizeMB) ==
    /\ j \in CompressJobIds
    /\ j \in DOMAIN jobs
    /\ jobs[j].status \notin {"compressing", "done"}
    /\ ~(quality = NoQuality /\ targetSizeMB = NoTarget)
    /\ quality # NoQuality => quality \in MIN_QUALITY..MAX_QUALITY
    /\ http[j].accepted < MaxRequests
    /\ LET targetSizeBytes ==
               IF targetSizeMB = NoTarget THEN 0 ELSE TargetSizeBytes(targetSizeMB)
           compressionQuality ==
               IF targetSizeBytes # 0 /\ "estimates" \in DOMAIN jobs[j]
               THEN findBestQuality(jobs[j].estimates.estimates, targetSizeBytes).quality
               ELSE quality
       IN  IF compressionQueue.enabled
           THEN /\ compressionQueue' =
                      [compressionQueue EXCEPT !.waiting =
                          Append(@, BullJob(j,
                                     IF compressionQuality = NoQuality
                                     THEN DEFAULT_QUALITY ELSE compressionQuality,
                                     targetSizeBytes, 0))]
                /\ http' = [http EXCEPT ![j].accepted = @ + 1, ![j].started = @ + 1]
                /\ UNCHANGED <<jobs, tasks>>
           ELSE /\ tasks[j].comp.pc # "running"
                /\ jobs' = updateJob(j, [status |-> "compressing"])
                /\ tasks' = [tasks EXCEPT ![j].comp =
                                CompStarted(jobs[j], compressionQuality, targetSizeBytes)]
                /\ http' = [http EXCEPT ![j].accepted = @ + 1]
                /\ UNCHANGED compressionQueue
    /\ UNCHANGED <<files, engineVars>>

\* the Bull processor takes the next job: it throws if the job is gone,
\* else the compression runs up to its first compressPdf call
SrvBullProcess ==
    /\ compressionQueue.enabled
    /\ Len(compressionQueue.active) < QUEUE_CONCURRENCY
    /\ compressionQueue.waiting # << >>
    /\ LET b == Head(compressionQueue.waiting)
       IN  IF b.jobId \notin DOMAIN jobs
           THEN /\ compressionQueue' =
                      [compressionQueue EXCEPT
                          !.waiting = BullRetry(Tail(@), b)]
                /\ UNCHANGED <<jobs, tasks>>
           ELSE /\ compressionQueue' =
                      [compressionQueue EXCEPT
                          !.waiting = Tail(@), !.active = Append(@, b)]
                /\ jobs' = updateJob(b.jobId, [status |-> "compressing"])
                /\ tasks' = [tasks EXCEPT ![b.jobId].comp =
                                CompStarted(jobs[b.jobId], b.quality, b.targetSizeBytes)]
    /\ UNCHANGED <<files, http, engineVars>>

\* a mutation of SrvFailJob: the failure is not recorded in the job
SrvFailJobUnrecorded(j) == jobs' = jobs

\* the catch branch of the compression: status 'failed' with the message
SrvFailJob(j) ==
    jobs' = updateJob(j, [status |-> "failed", error |-> "Compression failed"])

\* the end of a compression run of job j: in direct mode queueCompression
\* returns and the route sends its response; in Bull mode the processor
\* returns (ok) or throws and Bull queues the job again while attempts remain
SrvRunEnds(j, ok) ==
    IF compressionQueue.enabled
    THEN /\ compressionQueue' =
               [compressionQueue EXCEPT
                   !.active = << >>,
                   !.waiting = IF ok THEN @
                               ELSE BullRetry(@, compressionQueue.active[1])]
         /\ UNCHANGED http
    ELSE /\ http' = [http EXCEPT ![j].started = @ + 1]
         /\ UNCHANGED compressionQueue

\* a compressPdf call on the full document resolves with size s: the gate
\* verifies and returns or calls compressPdf again; a quality-only run
\* returns; the job is marked done when the run returns
SrvCompressOk(j) ==
    /\ tasks[j].comp.pc = "running"
    /\ tasks[j].comp.gs
    /\ files' = files \cup {CompressedFile(j)}
    /\ \E s \in ServerOutputSizes :
         LET c == tasks[j].comp
             reduced == ReducedQuality(c.currentQuality)
             passed == c.targetSizeBytes = 0 \/ VerificationGate(s, c.targetSizeBytes)
             again == /\ ~passed
                      /\ ~GiveUpAtFloor(reduced, c.attempts)
                      /\ LoopGuard(c.attempts)
             result == VerifiedCompressionResult(s,
                           IF passed THEN c.currentQuality ELSE reduced,
                           c.attempts, passed)
         IN  IF again
             THEN /\ tasks' = [tasks EXCEPT
                                 ![j].comp.currentQuality = reduced,
                                 ![j].comp.attempts = @ + 1,
                                 ![j].comp.gs = Spawns(UploadFile(j), files')]
                  /\ UNCHANGED <<jobs, compressionQueue, http>>
             ELSE /\ tasks' = [tasks EXCEPT
                                 ![j].comp = [CompTaskIdle EXCEPT
                                                !.pc = "returned",
                                                !.returned = result]]
                  /\ jobs' = updateJob(j, [status |-> "done",
                                 compressionResult |->
                                     [compressedSize |-> s, quality |-> result.quality]])
                  /\ SrvRunEnds(j, TRUE)
    /\ UNCHANGED engineVars

\* a compressPdf call on the full document rejects (fs.stat found no
\* input, or Ghostscript failed): the run ends in the catch branch
SrvCompressFails(j) ==
    /\ tasks[j].comp.pc = "running"
    /\ tasks' = [tasks EXCEPT ![j].comp =
                    [CompTaskIdle EXCEPT !.pc = "threw",
                                         !.attempts = tasks[j].comp.attempts]]
    /\ SrvFailJob(j)
    /\ SrvRunEnds(j, FALSE)
    /\ UNCHANGED <<files, engineVars>>

\* DELETE /:id: deleteJob = cleanupJob, then jobs.delete
SrvDeleteJob(j) ==
    /\ j \in DOMAIN jobs
    /\ files' = cleanupJob(j)
    /\ jobs' = [k \in DOMAIN jobs \ {j} |-> jobs[k]]
    /\ UNCHANGED <<compressionQueue, tasks, http, engineVars>>

InitServer ==
    /\ jobs = NoJobs
    /\ request = NoRequest
    /\ est = EstIdle
    /\ estReturn = NoEstimation
    /\ gate = GateIdle
    /\ gateReturn = NoVerified
    /\ resolverIn = NoResolverIn
    /\ resolved = NoResolved
    /\ backend = "any"
    /\ SideIdle
    /\ compressionQueue \in {[NoQueue EXCEPT !.enabled = b] : b \in BOOLEAN}
    /\ files = {}
    /\ tasks = NoTasks
    /\ http = NoHttp

NextServer ==
    \/ SrvBullProcess
    \/ \E j \in ServerJobIds :
        \/ SrvUpload(j)
        \/ SrvSampleReady(j)
        \/ SrvEstimationFails(j)
        \/ SrvLevelEnds(j)
        \/ \E r \in ServerRequests : SrvPostCompress(j, r.quality, r.targetSizeMB)
        \/ SrvCompressOk(j)
        \/ SrvCompressFails(j)
        \/ SrvDeleteJob(j)

SpecServer == InitServer /\ [][NextServer]_vars

(***************************************************************************)
(* Specification SpecDownload: the server with one job and the download    *)
(* route: upload, estimation, POST compress, the Bull processor, the gate, *)
(* DELETE and GET /:id/download at any moment                              *)
(***************************************************************************)
\* a response of GET /:id/download: the HTTP status, the error of the body
\* ("" when the file is streamed) and the job status reported in the body
DownloadResponse(j, status, error, jobStatus) ==
    [jobId |-> j, status |-> status, error |-> error, jobStatus |-> jobStatus]

\* a mutation of DownloadOf: the status of the job is not checked
DownloadOfAnyResult(j) ==
    IF j \notin DOMAIN jobs
    THEN DownloadResponse(j, 404, "Job not found", "")
    ELSE IF "compressionResult" \notin DOMAIN jobs[j]
    THEN DownloadResponse(j, 400, "Compression not complete", jobs[j].status)
    ELSE IF CompressedFile(j) \in files
    THEN DownloadResponse(j, 200, "", "")
    ELSE DownloadResponse(j, 404, "Compressed file not found", "")

\* the response of the route for job id j: getJob, the status check,
\* fs.access(outputPath), the stream
DownloadOf(j) ==
    IF j \notin DOMAIN jobs
    THEN DownloadResponse(j, 404, "Job not found", "")
    ELSE IF jobs[j].status # "done" \/ "compressionResult" \notin DOMAIN jobs[j]
    THEN DownloadResponse(j, 400, "Compression not complete", jobs[j].status)
    ELSE IF CompressedFile(j) \in files
    THEN DownloadResponse(j, 200, "", "")
    ELSE DownloadResponse(j, 404, "Compressed file not found", "")

\* GET /:id/download
SrvDownload(j) ==
    /\ download' = DownloadOf(j)
    /\ UNCHANGED <<jobs, request, estVars, gateVars, resolverVars, backend,
                   serverVars, selection, compress, analysis, client>>

NextDownload ==
    \/ SrvBullProcess
    \/ \E j \in CompressJobIds :
        \/ SrvUpload(j)
        \/ SrvSampleReady(j)
        \/ SrvEstimationFails(j)
        \/ SrvLevelEnds(j)
        \/ \E r \in ServerRequests : SrvPostCompress(j, r.quality, r.targetSizeMB)
        \/ SrvCompressOk(j)
        \/ SrvCompressFails(j)
        \/ SrvDeleteJob(j)
        \/ SrvDownload(j)

SpecDownload == InitServer /\ [][NextDownload]_vars

(***************************************************************************)
(* Claims on estimateSizes                                                 *)
(***************************************************************************)
\* C1: every curve returned by estimateSizes is non-decreasing in quality:
\* two returned entries with quality1 < quality2 have
\* estimatedSize(quality1) <= estimatedSize(quality2).
C1_MonotonicCurve ==
    est.pc = "returned" =>
        \A a \in 1..Len(estReturn.estimates), b \in 1..Len(estReturn.estimates) :
            estReturn.estimates[a].quality < estReturn.estimates[b].quality
                => estReturn.estimates[a].estimatedSize
                     <= estReturn.estimates[b].estimatedSize

\* C9: every entry of a returned curve has estimatedSize <= originalSize of
\* the full document, whatever the sample's compressed size is.
C9_NeverExceedsOriginal ==
    est.pc = "returned" =>
        \A a \in 1..Len(estReturn.estimates) :
            estReturn.estimates[a].estimatedSize <= estReturn.originalSize

\* a curve was returned that holds an entry whose compressed sample was
\* larger than the uncompressed sample
C9_Witness ==
    /\ est.pc = "returned"
    /\ \E a \in 1..Len(estReturn.estimates) :
           estReturn.estimates[a].sampleSize > est.sampleOriginalSize

\* C10: when the sample compression fails for every quality level,
\* estimateSizes does not return a curve: it never returns an empty curve.
C10_NoEmptyCurveReturned ==
    est.pc = "returned" => Len(estReturn.estimates) > 0

\* the number of entries of curve c for quality q
EntriesFor(c, q) == Cardinality({k \in 1..Len(c) : c[k].quality = q})

\* C31: partial sampling failure is tolerated: a level whose sample
\* compression succeeds gets exactly one entry, a level whose sample
\* compression fails gets none and the sampling goes on, and the returned
\* curve holds exactly the entries of the levels that succeeded.
C31_PartialFailureTolerated ==
    [][/\ LevelOk =>
            /\ EntriesFor(est'.estimates, QUALITY_LEVELS[est.i]) = 1
            /\ \A q \in {QUALITY_LEVELS[k] : k \in 1..Len(QUALITY_LEVELS)} \
                         {QUALITY_LEVELS[est.i]} :
                   EntriesFor(est'.estimates, q) = EntriesFor(est.estimates, q)
       /\ LevelFails =>
            /\ est'.pc = "sampling"
            /\ \A q \in {QUALITY_LEVELS[k] : k \in 1..Len(QUALITY_LEVELS)} :
                   EntriesFor(est'.estimates, q) = EntriesFor(est.estimates, q)
            /\ EntriesFor(est'.estimates, QUALITY_LEVELS[est.i]) = 0
       /\ Finish =>
            /\ est'.pc = "returned"
            /\ Len(estReturn'.estimates) = Len(est.estimates)
            /\ \A q \in {QUALITY_LEVELS[k] : k \in 1..Len(QUALITY_LEVELS)} :
                   EntriesFor(estReturn'.estimates, q) = EntriesFor(est.estimates, q)]_vars

\* estimateSizes has returned a curve of the levels 50 and 100 after the
\* sample compressions at 75 and 25 failed
C31_Witness ==
    /\ est.pc = "returned"
    /\ Len(estReturn.estimates) = 2
    /\ estReturn.estimates[1].quality = 50
    /\ estReturn.estimates[2].quality = 100

\* C32: for every pageCount >= 1 the page indices selected for the sample
\* are pairwise distinct, sorted ascending, all within 0..pageCount-1, and
\* their number equals the computed sample count, which is between 1 and
\* pageCount.
C32_SelectedPages ==
    selection.pc = "returned" =>
        /\ \A a \in 1..Len(selection.pages), b \in 1..Len(selection.pages) :
               a < b => selection.pages[a] < selection.pages[b]
        /\ \A a \in 1..Len(selection.pages) :
               selection.pages[a] \in 0..(selection.totalPages - 1)
        /\ Len(selection.pages) = selection.sampleCount
        /\ selection.sampleCount \in 1..selection.totalPages

\* of a document of 12 pages the pages 0, 5 and 11 have been selected,
\* picked in another order
C32_Witness ==
    /\ selection.pc = "returned"
    /\ selection.totalPages = 12
    /\ selection.pages = <<0, 5, 11>>
    /\ selection.available = <<1, 2, 3, 4, 6, 7, 8, 9, 10>>

(***************************************************************************)
(* Claims on analyzePdf                                                    *)
(***************************************************************************)
\* C36: for every analysed document fixedOverhead =
\* max(0, originalSize - compressibleContent), minimumAchievableSize is
\* 0.15 * compressibleContent + 0.85 * fixedOverhead rounded to the nearest
\* integer, and minimumAchievableSize never exceeds originalSize.
C36_FloorWithinOriginal ==
    analysis.pc = "returned" =>
        /\ analysis.fixedOverhead =
               Max(0, analysis.originalSize - analysis.compressibleContent)
        /\ LET n == 15 * analysis.compressibleContent + 85 * analysis.fixedOverhead
           IN  /\ 100 * analysis.minimumAchievableSize - n <= 50
               /\ n - 100 * analysis.minimumAchievableSize <= 50
        /\ analysis.minimumAchievableSize <= analysis.originalSize

\* Math.round(pages * 0.25): round half up of pages / 4
RoundedQuarter(pages) == (2 * pages + 4) \div 8

C2_VerificationExact ==
    gate.pc = "returned" =>
        (gateReturn.verificationPassed <=> gateReturn.compressedSize <= gate.target)

\* an over-target result was returned after a retry
C2_Witness ==
    /\ gate.pc = "returned"
    /\ gateReturn.compressedSize > gate.target
    /\ gateReturn.attempts > 1

\* C5: compressToTargetSize makes at most MAX_RECOMPRESSION_ATTEMPTS = 3
\* compressPdf calls and, each call returning, terminates.
C5_GateTerminates ==
    /\ [](Len(gate.calls) <= MAX_RECOMPRESSION_ATTEMPTS)
    /\ <>(gate.pc \in {"returned", "threw"})

\* the gate has terminated after three calls for a target of one byte
C5_Witness ==
    /\ gate.pc = "returned"
    /\ gate.target = 1
    /\ Len(gate.calls) = MAX_RECOMPRESSION_ATTEMPTS

\* C16: each further attempt of compressToTargetSize runs with strictly
\* more aggressive Ghostscript settings than the attempt before it: the
\* image resolution chosen by compressPdf for attempt k+1 is strictly lower
\* than for attempt k, for every start quality.
C16_StrictlyTighter ==
    \A k \in 1..(Len(gate.calls) - 1) :
        Dpi(gate.calls[k + 1]) < Dpi(gate.calls[k])

LastCallQuality == gate.calls[Len(gate.calls)]

\* C22: after an over-target attempt the gate gives up only if the attempt
\* count has reached 3, or the attempt just measured was itself run at
\* quality 1 and was not the first one: whenever it stops unverified after
\* fewer than 3 attempts, its last compressPdf call was at quality 1.
C22_ExhaustionRule ==
    (gate.pc = "returned" /\ ~gateReturn.verificationPassed)
        => \/ gateReturn.attempts = MAX_RECOMPRESSION_ATTEMPTS
           \/ LastCallQuality = MIN_QUALITY /\ gateReturn.attempts > 1

\* C23: the quality field of the result returned by compressToTargetSize
\* is the quality passed to the last compressPdf call, the one that
\* produced the returned file, whether verificationPassed is true or false.
C23_ReturnedQualityIsLastRun ==
    gate.pc = "returned" => gateReturn.quality = LastCallQuality

\* C24: the first attempt runs at the start quality (a quality in 1..100)
\* and each later attempt at exactly max(1, previous quality - 5); the
\* attempted qualities are non-increasing and never below 1.
C24_QualitySequence ==
    /\ Len(gate.calls) = gate.attempts
    /\ \A k \in 1..Len(gate.calls) : gate.calls[k] >= 1
    /\ \A k \in 1..(Len(gate.calls) - 1) :
          /\ gate.calls[k + 1] =
                 IF gate.calls[k] - 5 < 1 THEN 1 ELSE gate.calls[k] - 5
          /\ gate.calls[k + 1] <= gate.calls[k]

\* a gate started at quality 3 has run its second attempt at the floor 1
C24_Witness ==
    /\ Len(gate.calls) = 2
    /\ gate.calls[1] = 3
    /\ gate.calls[2] = 1

(***************************************************************************)
(* Claims on findBestQuality                                               *)
(***************************************************************************)
\* the entries of the curve passed to findBestQuality with the highest and
\* the lowest quality
HighestEntry ==
    CHOOSE e \in {resolverIn.estimates[k] : k \in 1..Len(resolverIn.estimates)} :
        \A k \in 1..Len(resolverIn.estimates) :
            resolverIn.estimates[k].quality <= e.quality

LowestEntry ==
    CHOOSE e \in {resolverIn.estimates[k] : k \in 1..Len(resolverIn.estimates)} :
        \A k \in 1..Len(resolverIn.estimates) :
            resolverIn.estimates[k].quality >= e.quality

\* findBestQuality has been called on a non-empty curve
ResolvedNonEmpty == resolved # NoResolved /\ Len(resolverIn.estimates) > 0

\* C6: on a non-empty curve, a target >= the estimate of the highest quality
\* level gives that level with achievable = true, and a target < the estimate
\* of the lowest quality level gives that level with achievable = false.
C6_ResolverBoundaries ==
    ResolvedNonEmpty =>
        /\ resolverIn.target >= HighestEntry.estimatedSize
              => resolved.quality = HighestEntry.quality /\ resolved.achievable
        /\ resolverIn.target < LowestEntry.estimatedSize
              => resolved.quality = LowestEntry.quality /\ ~resolved.achievable

\* some quality level of the curve is estimated to fit the target
SomeEntryFits ==
    \E k \in 1..Len(resolverIn.estimates) :
        resolverIn.estimates[k].estimatedSize <= resolverIn.target

\* C25: for every curve estimateSizes returns and every target,
\* findBestQuality reports achievable = true exactly when at least one entry
\* of the curve has estimatedSize <= the target.
C25_AchievableIffSomeEntryFits ==
    (resolved # NoResolved /\ resolverIn.estimates \in ReturnedCurves)
        => (resolved.achievable <=> SomeEntryFits)

\* C34: on a non-empty curve that is non-decreasing in quality the quality
\* returned by findBestQuality is monotone in the target: of two calls the
\* one for the larger target never returns the lower quality; and the
\* returned quality lies between the lowest and the highest quality of the
\* curve.
C34_QualityMonotoneInTarget ==
    [][(/\ resolved # NoResolved
        /\ resolved' # resolved \/ resolverIn' # resolverIn
        /\ Len(resolverIn.estimates) > 0
        /\ IsMonotonic(resolverIn.estimates))
          => /\ resolverIn.target <= resolverIn'.target
                   => resolved.quality <= resolved'.quality
             /\ resolverIn.target >= resolverIn'.target
                   => resolved.quality >= resolved'.quality
             /\ resolved'.quality >= LowestEntry.quality
             /\ resolved'.quality <= HighestEntry.quality]_vars

\* a second call on the scenario curve for a target inside a bracket has
\* returned an interpolated quality
C34_Witness ==
    /\ resolverIn.estimates = ScenarioCurve
    /\ resolverIn.target = 20 * MB
    /\ resolved.achievable
    /\ resolved.quality \in 51..74

\* the adjacent pair (estimates[k], estimates[k+1]) of the curve, which is
\* sorted ascending by quality, brackets the target
PairBrackets(k) ==
    /\ resolverIn.estimates[k].estimatedSize <= resolverIn.target
    /\ resolverIn.target <= resolverIn.estimates[k + 1].estimatedSize

PairDiffers(k) ==
    resolverIn.estimates[k].estimatedSize # resolverIn.estimates[k + 1].estimatedSize

\* round(lower.quality + (target - lower.size) / (higher.size - lower.size)
\*       * (higher.quality - lower.quality)), clamped to [1,100],
\* for lower = estimates[k], higher = estimates[k+1]
PairQuality(k) ==
    LET lower == resolverIn.estimates[k]
        higher == resolverIn.estimates[k + 1]
        num == (resolverIn.target - lower.estimatedSize) * (higher.quality - lower.quality)
        den == higher.estimatedSize - lower.estimatedSize
        q == lower.quality + (2 * num + den) \div (2 * den)
    IN  IF q < 1 THEN 1 ELSE IF q > 100 THEN 100 ELSE q

\* C7 as stated: for every adjacent pair with different sizes that brackets
\* the target, the result is achievable with the quality interpolated on
\* that pair.
C7_AnyBracketingPair ==
    ResolvedNonEmpty =>
        \A k \in 1..(Len(resolverIn.estimates) - 1) :
            PairBrackets(k) /\ PairDiffers(k)
                => resolved.achievable /\ resolved.quality = PairQuality(k)

\* C7 (amended): for a target with lowest estimate <= target < highest-quality
\* estimate, the result is achievable and a bracketing adjacent pair exists;
\* if the bracketing pair of highest quality has different sizes, the
\* quality is the one interpolated on that pair.
C7_HighestBracketingPair ==
    (/\ ResolvedNonEmpty
     /\ LowestEntry.estimatedSize <= resolverIn.target
     /\ resolverIn.target < HighestEntry.estimatedSize)
        => /\ resolved.achievable
           /\ \E k \in 1..(Len(resolverIn.estimates) - 1) :
                 /\ PairBrackets(k)
                 /\ \A j \in (k + 1)..(Len(resolverIn.estimates) - 1) : ~PairBrackets(j)
                 /\ PairDiffers(k) => resolved.quality = PairQuality(k)

\* the 3MB target on the curve [(25,1MB),(50,2MB),(75,4MB),(100,8MB)]
\* resolved to quality 63
C7_Witness ==
    /\ resolverIn = [estimates |-> BoundaryCurve, target |-> 3 * MB]
    /\ resolved.achievable
    /\ resolved.quality = 63

(***************************************************************************)
(* Claims on the resolver followed by the gate                             *)
(***************************************************************************)
\* C4: if findBestQuality reports achievable = true and Ghostscript is
\* deterministic with the curve's estimates as full-document sizes, then
\* compressToTargetSize started at the resolved quality returns
\* verificationPassed = true with an output <= target within 3 attempts.
C4_AchievableIsVerified ==
    (backend = "curve" /\ resolved.achievable /\ gate.pc = "returned")
        => /\ gateReturn.verificationPassed
           /\ gateReturn.compressedSize <= gate.target
           /\ gateReturn.attempts <= MAX_RECOMPRESSION_ATTEMPTS

\* the gate runs the scenario (curve [(25,5MB),(50,12MB),(75,28MB),(100,45MB)],
\* target 25MB); its first full compression gave 26MB and the second
\* attempt has been started
ScenarioSecondAttempt ==
    /\ resolverIn = ScenarioInput
    /\ gate.pc = "compressing"
    /\ gate.attempts = 2
    /\ gate.result = 26 * MB

\* C8 as stated: in the scenario the resolver's starting quality is 68 and,
\* the first full compression giving 26MB, the second attempt runs at 63.
C8_Scenario68Then63 ==
    /\ (resolverIn = ScenarioInput /\ resolved # NoResolved)
          => resolved.quality = 68
    /\ ScenarioSecondAttempt => gate.calls = <<68, 63>>

\* C8 (amended): in the scenario the resolver's starting quality is 70
\* (strictly between 50 and 75) and, the first full compression giving
\* 26MB, the second attempt runs at quality 65.
C8_Scenario70Then65 ==
    /\ (resolverIn = ScenarioInput /\ resolved # NoResolved)
          => resolved.quality = 70
    /\ ScenarioSecondAttempt => gate.calls = <<70, 65>>

C8_Witness == ScenarioSecondAttempt /\ resolved.quality = gate.calls[1]

(***************************************************************************)
(* Claims on the units of a target size                                    *)
(***************************************************************************)
\* C21: a compress request with targetSizeMB = N is enforced by the
\* verification gate against a target of exactly N * 1,000,000 bytes: the
\* target the gate of a request for a whole number N of megabytes holds is
\* N * MB.
C21_DecimalTarget ==
    (request.mode = "target" /\ request.targetSizeMB.den = 1)
        => gate.target = request.targetSizeMB.num * MB

(***************************************************************************)
(* Claims on the job life cycle                                            *)
(***************************************************************************)
\* C3: a job whose compression request carried targetSizeBytes never
\* reaches status 'done' with compressionResult.compressedSize > targetSizeBytes.
C3_DoneWithinTarget ==
    \A j \in DOMAIN jobs :
        (jobs[j].status = "done" /\ gate.pc = "returned")
            => jobs[j].compressionResult.compressedSize <= gate.target

\* C12: the stages of a job are sequential: no full-document compression
\* of a job is in progress while the job's estimation is still running; a
\* compress request is acted on only once the estimation has ended.
C12_CompressAfterEstimation ==
    request # NoRequest => est.pc \in {"returned", "rejected"}

\* C18: for a job whose estimation completed, findBestQuality applied to the
\* stored curve with a target >= the document's original size returns the
\* highest quality of the curve and achievable = true.
C18_UnderTargetResolvesTop ==
    \A j \in DOMAIN jobs :
        (resolved # NoResolved /\ resolverIn.target >= jobs[j].originalSize)
            => /\ resolved.achievable
               /\ Len(resolverIn.estimates) > 0
               /\ resolved.quality = HighestEntry.quality

\* C19: when estimateSizes rejects, the job becomes 'ready' with an error
\* note and no estimates, and a quality-only compress request is then
\* accepted (it can bring the job to 'done' without a curve).
C19_EstimationFailureStillReady ==
    /\ [][(est.pc = "extract" /\ est'.pc = "rejected")
            => \A j \in DOMAIN jobs' :
                  /\ jobs'[j].status = "ready"
                  /\ "error" \in DOMAIN jobs'[j]
                  /\ "estimates" \notin DOMAIN jobs'[j]]_vars
    /\ [](\A j \in DOMAIN jobs :
            (est.pc = "rejected" /\ jobs[j].status = "ready" /\ request = NoRequest)
                => ENABLED PostCompress(j, 60, NoTarget))

\* a job whose estimation failed is done at the requested quality, with no
\* curve
C19_Witness ==
    /\ est.pc = "rejected"
    /\ \E j \in DOMAIN jobs :
          /\ jobs[j].status = "done"
          /\ "estimates" \notin DOMAIN jobs[j]
          /\ jobs[j].compressionResult.quality = 60

\* C29: when a compress request carries a target and the job has a curve,
\* the start quality of the verification gate is the quality findBestQuality
\* returns for the target, whatever the requested quality is; the requested
\* quality (or the default 75) is the start quality only when the job has no
\* estimates.
C29_TargetTakesPrecedence ==
    [][\A j \in DOMAIN jobs :
          (request = NoRequest /\ request'.mode = "target")
              => gate'.calls[1] =
                   IF HasEstimates(j)
                   THEN findBestQuality(jobs[j].estimates.estimates,
                                        request'.targetSizeBytes).quality
                   ELSE IF request'.quality = NoQuality THEN DEFAULT_QUALITY
                   ELSE request'.quality]_vars

\* a request with a target and the quality 60 whose gate started at another
\* quality, the one of the resolver
C29_Witness ==
    /\ request.mode = "target"
    /\ request.quality = 60
    /\ gate.calls[1] # 60
    /\ gate.calls[1] = resolved.quality

\* C30: the estimates of a job are assigned at most once and, once set, are
\* never changed by a later compression request, update or resolver call.
C30_EstimatesAssignedOnce ==
    [][\A j \in DOMAIN jobs \cap DOMAIN jobs' :
          HasEstimates(j)
              => /\ "estimates" \in DOMAIN jobs'[j]
                 /\ jobs'[j].estimates = jobs[j].estimates]_vars

\* a job with estimates has completed a compression
C30_Witness ==
    \E j \in DOMAIN jobs :
        /\ HasEstimates(j)
        /\ jobs[j].status = "done"
        /\ Len(jobs[j].estimates.estimates) > 0

(***************************************************************************)
(* Claims on the server                                                    *)
(***************************************************************************)
\* the compression run of job j has ended by a rejection in this step
RunThrows(j) == tasks[j].comp.pc = "running" /\ tasks'[j].comp.pc = "threw"

\* the compression run of job j has ended by a return in this step
RunReturns(j) == tasks[j].comp.pc = "running" /\ tasks'[j].comp.pc = "returned"

\* C11 (amended): a rejection of compressPdf during any attempt of the
\* compression ends the run without a result and without a further
\* attempt, and sets the job's status to 'failed' with an error message,
\* whereas a run that returns (verificationPassed = false included) sets it
\* to 'done'.  (In Bull mode the queue may run the failed request again.)
C11_FailurePropagates ==
    [][\A j \in ServerJobIds :
          /\ RunThrows(j) =>
                /\ tasks'[j].comp.returned = NoVerified
                /\ ~tasks'[j].comp.gs
                /\ j \in DOMAIN jobs =>
                      /\ jobs'[j].status = "failed"
                      /\ "error" \in DOMAIN jobs'[j]
          /\ (RunReturns(j) /\ j \in DOMAIN jobs) => jobs'[j].status = "done"]_vars

\* a run for a target was ended by a rejection in its second attempt and
\* the job is failed
C11_Witness ==
    \E j \in DOMAIN jobs :
        /\ tasks[j].comp.pc = "threw"
        /\ tasks[j].comp.attempts = 2
        /\ jobs[j].status = "failed"
        /\ "error" \in DOMAIN jobs[j]

\* a compression run of job j starts in this step for a new request
FreshRun(j) ==
    IF compressionQueue.enabled
    THEN /\ compressionQueue'.active # << >>
         /\ compressionQueue'.active[1].attemptsMade = 0
    ELSE http'[j].accepted > http[j].accepted

\* C11 as stated: a rejection of compressPdf during the gate is propagated
\* (no result, no further attempt, status 'failed' with an error message)
\* and the job ends in status 'failed': only a new compress request makes
\* it 'compressing' again.
C11_FailureEndsJob ==
    /\ C11_FailurePropagates
    /\ [][\A j \in DOMAIN jobs \cap DOMAIN jobs' :
             (jobs[j].status = "failed" /\ jobs'[j].status = "compressing")
                 => FreshRun(j)]_vars

\* the number of Ghostscript subprocesses started by compressPdf that run
GsRunning ==
    Cardinality({j \in ServerJobIds : tasks[j].est.gs})
      + Cardinality({j \in ServerJobIds : tasks[j].comp.gs})

\* C13: the number of Ghostscript subprocesses running at the same time,
\* sample compressions and full-document compressions of all jobs together,
\* never exceeds the limiter's bound (the concurrency of the queue).
C13_BoundedBackend == GsRunning <= QUEUE_CONCURRENCY

\* compressPdf starts a Ghostscript subprocess for job j in this step
SpawnsNow(j) ==
    \/ /\ tasks'[j].est.gs
       /\ ~tasks[j].est.gs \/ tasks'[j].est.i # tasks[j].est.i
    \/ /\ tasks'[j].comp.gs
       /\ ~tasks[j].comp.gs \/ tasks'[j].comp.attempts # tasks[j].comp.attempts

\* C14: once deleteJob(jobId) has completed, no further Ghostscript
\* subprocess is started for that job, neither by a running estimation nor
\* by a running verification gate.
C14_NoSpawnAfterDelete ==
    [][\A j \in ServerJobIds :
          (tasks[j].est.pc # "none" /\ j \notin DOMAIN jobs) => ~SpawnsNow(j)]_vars

\* a compression requested for job j is queued or running
CompressionPending(j) ==
    \/ tasks[j].comp.pc = "running"
    \/ \E k \in 1..Len(compressionQueue.waiting) : compressionQueue.waiting[k].jobId = j
    \/ \E k \in 1..Len(compressionQueue.active) : compressionQueue.active[k].jobId = j

\* C15: in both modes the 'Compression started' response of POST compress
\* is sent before the compression has finished.
C15_RespondsBeforeFinish ==
    [][\A j \in ServerJobIds :
          http'[j].started > http[j].started => CompressionPending(j)']_vars

\* the job for which a file of TEMP_DIR was created
OwnerOf(f) == IF f.prefix = "upload" THEN f.rest ELSE f.prefix

\* no operation of job j is in flight
Quiescent(j) ==
    /\ tasks[j].est.pc = "ended"
    /\ ~CompressionPending(j)

\* C20: deleteJob(jobId), completing with no operation of the job in
\* flight, leaves no file created for the job (upload, samples, compressed
\* output) in TEMP_DIR and does not touch the files of other jobs.
C20_DeleteRemovesAllFiles ==
    [][\A j \in DOMAIN jobs :
          (j \notin DOMAIN jobs' /\ Quiescent(j))
              => /\ \A f \in files' : OwnerOf(f) # j
                 /\ \A f \in files : OwnerOf(f) # j => f \in files']_vars

\* C26: at most one compression per job is accepted at a time, in both
\* modes: a compress request for a job is accepted only when no compression
\* requested before for that job is queued or running.
C26_OneCompressionAtATime ==
    [][\A j \in ServerJobIds :
          http'[j].accepted > http[j].accepted => ~CompressionPending(j)]_vars

\* C27: status 'done' is terminal: as long as the job is in the registry,
\* no later step changes its status or its compressionResult.
C27_DoneIsTerminal ==
    [][\A j \in DOMAIN jobs \cap DOMAIN jobs' :
          jobs[j].status = "done"
              => /\ jobs'[j].status = "done"
                 /\ jobs'[j].compressionResult = jobs[j].compressionResult]_vars

\* job j was uploaded and deleteJob has removed its entry
Deleted(j) == tasks[j].est.pc # "none" /\ j \notin DOMAIN jobs

\* C28: a deleted job never reappears: no step puts an entry for a deleted
\* job back in the registry, a step of an estimation or compression of a
\* deleted job leaves the registry as it is, and the deletion of a job
\* leaves the entries of the other jobs as they are.
C28_DeletedStaysDeleted ==
    [][\A j \in ServerJobIds :
          /\ Deleted(j) => j \notin DOMAIN jobs'
          /\ (Deleted(j) /\ tasks'[j] # tasks[j]) => jobs' = jobs
          /\ (j \in DOMAIN jobs /\ j \notin DOMAIN jobs')
                => \A k \in DOMAIN jobs \ {j} :
                       k \in DOMAIN jobs' /\ jobs'[k] = jobs[k]]_vars

\* a compression of a deleted job has returned after the deletion (its
\* output was written after cleanupJob) while another job is registered
C28_Witness ==
    \E j \in ServerJobIds :
        /\ Deleted(j)
        /\ tasks[j].comp.pc = "returned"
        /\ CompressedFile(j) \in files
        /\ DOMAIN jobs # {}

\* C35: the download route streams a file only for a job whose status is
\* 'done' and whose compressionResult is set; for a job in any other status
\* it answers 400 'Compression not complete', for an unknown or deleted job
\* 404; it never changes the job.
C35_DownloadOnlyWhenDone ==
    [][\A j \in ServerJobIds :
          SrvDownload(j)
              => /\ jobs' = jobs
                 /\ download'.status = 200
                       => /\ j \in DOMAIN jobs
                          /\ jobs[j].status = "done"
                          /\ "compressionResult" \in DOMAIN jobs[j]
                 /\ (j \in DOMAIN jobs /\ jobs[j].status # "done")
                       => /\ download'.status = 400
                          /\ download'.error = "Compression not complete"
                 /\ j \notin DOMAIN jobs => download'.status = 404]_vars

\* the download of a job that has a compressionResult and is compressing
\* again was answered 400
C35_Witness ==
    \E j \in DOMAIN jobs :
        /\ download = DownloadResponse(j, 400, "Compression not complete", "compressing")
        /\ jobs[j].status = "compressing"
        /\ "compressionResult" \in DOMAIN jobs[j]

(***************************************************************************)
(* Claims on the browser client                                            *)
(***************************************************************************)
\* the job of the pending continuation p was cancelled after the request
\* was sent: a later file selection or a reset has replaced it
Cancelled(p) ==
    IF p.kind = "upload"
    THEN p.job # client.uploads \/ ~client.file
    ELSE client.activeJobIdRef # p.job

\* C37: after the active job is cancelled, no response that belongs to it
\* (status poll, estimate fetch, compression, late upload response) changes
\* the status, the estimates or the compression result of the page.
C37_CancelledJobIsSilent ==
    [][\A p \in client.pending :
          (p \notin client'.pending /\ Cancelled(p))
              => /\ client'.status = client.status
                 /\ client'.estimates = client.estimates
                 /\ client'.compressionResult = client.compressionResult]_vars

====
